---- MODULE Spec2Model ----
(***************************************************************************)
(* A model of the diet agent: the nutrition calculator, the meal catalog   *)
(* and its filters, the AI planner with its rule-based fallback, the plan  *)
(* store with the /plan command and the batch notification jobs, the       *)
(* streak counter, the profile validation and the goal tracker.            *)
(*                                                                         *)
(* Python values are modelled as follows.  A dict is a function whose      *)
(* domain is a set of strings (the empty dict is <<>>); a list is a        *)
(* sequence; Optional[x] is a sequence of length at most one (None is      *)
(* <<>>); a str that the code searches for substrings is the sequence of   *)
(* its characters; a float that only takes multiples of 0.01 is an integer *)
(* number of hundredths.  A call that may raise returns an outcome         *)
(* [raised, value].                                                        *)
(*                                                                         *)
(* A date or a timestamp is a day number.  date.today() is the variable    *)
(* today; it changes between the runs of the handlers, never during one.   *)
(***************************************************************************)
EXTENDS Integers, Sequences, FiniteSets, TLC

VARIABLES
  lastCall,      \* the last AIPlanner call: its arguments and its outcome
  aiProvider,    \* settings.ai_provider
  today,         \* date.today(), as a day number
  plans,         \* meal_plans: per user id, the row of today (<<>>: none)
  recentPlans,   \* meal_plans: per user id, the rows of the days before today
  outbox,        \* the message the last step sent (<<>>: none)
  chat,          \* the /plan request the bot is handling, and where it stands
  job,           \* the batch job that is running, and where it stands
  jobLog,        \* per user the last job has gone through: how it ended
  streaks,       \* streaks rows, in insertion order
  streakCalls,   \* per thread: the update_streak call it is in
  streakWrites,  \* history: per <<user, type>>, the days on which a call changed a row
  profile,       \* the users row of the user
  convState,     \* the onboarding conversation state of the user
  userData,      \* context.user_data of the onboarding conversation
  weightLogs,    \* weight_logs rows, oldest first
  lastReply,     \* the answer to the last profile-changing request
  foodLogs,      \* food_logs rows, oldest first
  waterLogs,     \* water_logs rows, oldest first
  trackCall      \* the last GoalTracker call: its arguments and its result

vars == << lastCall, aiProvider, today, plans, recentPlans, outbox, chat, job,
           jobLog, streaks, streakCalls, streakWrites, profile, convState,
           userData, weightLogs, lastReply, foodLogs, waterLogs, trackCall >>

plannerVars == << lastCall >>
envVars     == << aiProvider, today >>
planVars    == << plans, recentPlans, outbox, chat, job, jobLog >>
streakVars  == << streaks, streakCalls, streakWrites >>
profileVars == << profile, convState, userData, weightLogs, lastReply >>
trackerVars == << foodLogs, waterLogs, trackCall >>

-----------------------------------------------------------------------------
(* Python values *)

NoneV == <<>>
Some(x) == <<x>>
\* x or default, for an Optional[int]: None and 0 are both falsy.
OrInt(x, default) == IF x = NoneV \/ x[1] = 0 THEN default ELSE x[1]
\* x or default, for an Optional[str] or a list: None and the empty value are falsy.
OrElse(x, default) == IF x = NoneV THEN default ELSE x[1]

EmptyDict == <<>>
\* d.get(k, default)
Get(d, k, default) == IF k \in DOMAIN d THEN d[k] ELSE default

Ok(v) == [raised |-> FALSE, value |-> v]
Raised == [raised |-> TRUE, value |-> EmptyDict]

Min(a, b) == IF a <= b THEN a ELSE b
Abs(x) == IF x < 0 THEN -x ELSE x

RECURSIVE SumSeq(_)
SumSeq(s) == IF s = <<>> THEN 0 ELSE Head(s) + SumSeq(Tail(s))

UpperCase == << "A","B","C","D","E","F","G","H","I","J","K","L","M",
                "N","O","P","Q","R","S","T","U","V","W","X","Y","Z" >>
LowerCase == << "a","b","c","d","e","f","g","h","i","j","k","l","m",
                "n","o","p","q","r","s","t","u","v","w","x","y","z" >>

\* str.lower() on a str held as its characters
LowerChar(c) ==
  IF \E i \in 1..Len(UpperCase) : UpperCase[i] = c
    THEN LowerCase[CHOOSE i \in 1..Len(UpperCase) : UpperCase[i] = c]
    ELSE c
Lower(s) == [i \in 1..Len(s) |-> LowerChar(s[i])]

\* word in s, for two strs held as their characters
Contains(word, s) ==
  \E i \in 0..(Len(s) - Len(word)) : \A j \in 1..Len(word) : s[i + j] = word[j]

\* any(word in s for word in words)
AnyWordIn(words, s) == \E k \in 1..Len(words) : Contains(words[k], s)

\* str.lower() on a restriction or cuisine tag, held as a TLA+ string: the
\* tags of the model that have an upper-case letter, each with its lower-case form.
LowerTag(t) ==
  CASE t = "Vegan" -> "vegan"
    [] t = "Vegetarian" -> "vegetarian"
    [] t = "Gluten-Free" -> "gluten-free"
    [] t = "Indian" -> "indian"
    [] t = "Italian" -> "italian"
    [] t = "Thai" -> "thai"
    [] OTHER -> t

\* [t.lower() for t in tags]
LowerTags(tags) == [i \in 1..Len(tags) |-> LowerTag(tags[i])]

-----------------------------------------------------------------------------
(* NutritionCalculator *)

\* The three meals for every goal.
get_meal_distribution_NoFasting(meal_frequency, goal_type) ==
  [breakfast |-> 25, lunch |-> 35, dinner |-> 40]

\* get_meal_distribution: the share of the daily calories of each slot, in hundredths.
get_meal_distribution(meal_frequency, goal_type) ==
  IF goal_type = "intermittent_fasting"
    THEN IF meal_frequency >= 3
           THEN [lunch |-> 45, dinner |-> 45, snacks |-> 10]
           ELSE [lunch |-> 50, dinner |-> 50]
    ELSE CASE meal_frequency = 1 -> [dinner |-> 100]
           [] meal_frequency = 2 -> [lunch |-> 45, dinner |-> 55]
           [] meal_frequency = 3 -> [breakfast |-> 25, lunch |-> 35, dinner |-> 40]
           [] meal_frequency = 4 ->
                [breakfast |-> 20, lunch |-> 30, dinner |-> 35, snacks |-> 15]
           [] meal_frequency >= 5 ->
                [breakfast |-> 20, mid_morning_snack |-> 10, lunch |-> 25,
                 afternoon_snack |-> 10, dinner |-> 30, evening_snack |-> 5]
           [] OTHER -> [breakfast |-> 25, lunch |-> 35, dinner |-> 40]

\* The estimates table of estimate_food_nutrition, in insertion order.
FoodEstimates ==
  << [food |-> <<"c","h","i","c","k","e","n">>, calories |-> 165, protein |-> 31, carbs |-> 0, fat |-> 4],
     [food |-> <<"b","e","e","f">>, calories |-> 250, protein |-> 26, carbs |-> 0, fat |-> 15],
     [food |-> <<"f","i","s","h">>, calories |-> 150, protein |-> 25, carbs |-> 0, fat |-> 5],
     [food |-> <<"e","g","g">>, calories |-> 78, protein |-> 6, carbs |-> 1, fat |-> 5],
     [food |-> <<"t","o","f","u">>, calories |-> 80, protein |-> 8, carbs |-> 2, fat |-> 4],
     [food |-> <<"r","i","c","e">>, calories |-> 200, protein |-> 4, carbs |-> 45, fat |-> 0],
     [food |-> <<"b","r","e","a","d">>, calories |-> 80, protein |-> 3, carbs |-> 15, fat |-> 1],
     [food |-> <<"p","a","s","t","a">>, calories |-> 220, protein |-> 8, carbs |-> 43, fat |-> 1],
     [food |-> <<"p","o","t","a","t","o">>, calories |-> 160, protein |-> 4, carbs |-> 37, fat |-> 0],
     [food |-> <<"o","a","t","m","e","a","l">>, calories |-> 150, protein |-> 5, carbs |-> 27, fat |-> 3],
     [food |-> <<"m","i","l","k">>, calories |-> 150, protein |-> 8, carbs |-> 12, fat |-> 8],
     [food |-> <<"y","o","g","u","r","t">>, calories |-> 100, protein |-> 10, carbs |-> 6, fat |-> 3],
     [food |-> <<"c","h","e","e","s","e">>, calories |-> 110, protein |-> 7, carbs |-> 0, fat |-> 9],
     [food |-> <<"s","a","l","a","d">>, calories |-> 50, protein |-> 2, carbs |-> 10, fat |-> 0],
     [food |-> <<"v","e","g","e","t","a","b","l","e","s">>, calories |-> 50, protein |-> 2, carbs |-> 10, fat |-> 0],
     [food |-> <<"b","r","o","c","c","o","l","i">>, calories |-> 55, protein |-> 4, carbs |-> 11, fat |-> 1],
     [food |-> <<"a","p","p","l","e">>, calories |-> 95, protein |-> 0, carbs |-> 25, fat |-> 0],
     [food |-> <<"b","a","n","a","n","a">>, calories |-> 105, protein |-> 1, carbs |-> 27, fat |-> 0],
     [food |-> <<"o","r","a","n","g","e">>, calories |-> 62, protein |-> 1, carbs |-> 15, fat |-> 0],
     [food |-> <<"s","a","n","d","w","i","c","h">>, calories |-> 350, protein |-> 15, carbs |-> 40, fat |-> 15],
     [food |-> <<"b","u","r","g","e","r">>, calories |-> 500, protein |-> 25, carbs |-> 40, fat |-> 25],
     [food |-> <<"p","i","z","z","a">>, calories |-> 285, protein |-> 12, carbs |-> 36, fat |-> 10],
     [food |-> <<"s","a","l","a","d"," ","b","o","w","l">>, calories |-> 300, protein |-> 15, carbs |-> 30, fat |-> 12],
     [food |-> <<"s","m","o","o","t","h","i","e">>, calories |-> 250, protein |-> 8, carbs |-> 45, fat |-> 5],
     [food |-> <<"n","u","t","s">>, calories |-> 170, protein |-> 5, carbs |-> 6, fat |-> 15],
     [food |-> <<"p","r","o","t","e","i","n"," ","b","a","r">>, calories |-> 200, protein |-> 20, carbs |-> 20, fat |-> 8],
     [food |-> <<"c","o","o","k","i","e">>, calories |-> 150, protein |-> 2, carbs |-> 20, fat |-> 7] >>
\* The default estimate of estimate_food_nutrition for an unknown food.
DefaultEstimate == [calories |-> 200, protein |-> 10, carbs |-> 25, fat |-> 8]

Nutrition(e) ==
  [calories |-> e.calories, protein |-> e.protein, carbs |-> e.carbs, fat |-> e.fat]

\* The for loop of estimate_food_nutrition from entry i on: the first entry
\* whose key is a substring of the lower-cased description wins.
RECURSIVE FirstEstimate(_, _)
FirstEstimate(food_lower, i) ==
  IF i > Len(FoodEstimates) THEN DefaultEstimate
  ELSE IF Contains(FoodEstimates[i].food, food_lower)
         THEN Nutrition(FoodEstimates[i])
         ELSE FirstEstimate(food_lower, i + 1)

estimate_food_nutrition(food_description) ==
  FirstEstimate(Lower(food_description), 1)

-----------------------------------------------------------------------------
(* RuleBasedProvider *)

\* MEAL_TEMPLATES["breakfast"]; a name is the sequence of its characters.
BreakfastTemplates ==
  << [name |-> <<"O","a","t","m","e","a","l"," ","w","i","t","h"," ","B","e","r","r","i","e","s">>,
      calories |-> 350, protein |-> 12, carbs |-> 55, fat |-> 8,
      cuisines |-> <<"american", "any">>],
     [name |-> <<"S","c","r","a","m","b","l","e","d"," ","E","g","g","s"," ","w","i","t","h"," ","T","o","a","s","t">>,
      calories |-> 400, protein |-> 20, carbs |-> 30, fat |-> 22,
      cuisines |-> <<"american", "any">>],
     [name |-> <<"G","r","e","e","k"," ","Y","o","g","u","r","t"," ","P","a","r","f","a","i","t">>,
      calories |-> 300, protein |-> 18, carbs |-> 40, fat |-> 8,
      cuisines |-> <<"mediterranean", "any">>],
     [name |-> <<"A","v","o","c","a","d","o"," ","T","o","a","s","t">>,
      calories |-> 320, protein |-> 8, carbs |-> 35, fat |-> 18,
      cuisines |-> <<"american", "any">>],
     [name |-> <<"I","d","l","i"," ","w","i","t","h"," ","S","a","m","b","a","r">>,
      calories |-> 280, protein |-> 10, carbs |-> 50, fat |-> 4,
      cuisines |-> <<"indian">>],
     [name |-> <<"P","o","h","a">>,
      calories |-> 250, protein |-> 6, carbs |-> 45, fat |-> 6,
      cuisines |-> <<"indian">>],
     [name |-> <<"S","m","o","o","t","h","i","e"," ","B","o","w","l">>,
      calories |-> 380, protein |-> 15, carbs |-> 60, fat |-> 10,
      cuisines |-> <<"any">>] >>

\* MEAL_TEMPLATES["lunch"]; a name is the sequence of its characters.
LunchTemplates ==
  << [name |-> <<"G","r","i","l","l","e","d"," ","C","h","i","c","k","e","n"," ","S","a","l","a","d">>,
      calories |-> 450, protein |-> 35, carbs |-> 20, fat |-> 25,
      cuisines |-> <<"american", "any">>],
     [name |-> <<"Q","u","i","n","o","a"," ","B","u","d","d","h","a"," ","B","o","w","l">>,
      calories |-> 500, protein |-> 18, carbs |-> 65, fat |-> 18,
      cuisines |-> <<"any">>],
     [name |-> <<"T","u","r","k","e","y"," ","W","r","a","p">>,
      calories |-> 420, protein |-> 28, carbs |-> 40, fat |-> 16,
      cuisines |-> <<"american", "any">>],
     [name |-> <<"D","a","l"," ","w","i","t","h"," ","R","i","c","e">>,
      calories |-> 480, protein |-> 16, carbs |-> 70, fat |-> 12,
      cuisines |-> <<"indian">>],
     [name |-> <<"M","e","d","i","t","e","r","r","a","n","e","a","n"," ","B","o","w","l">>,
      calories |-> 520, protein |-> 22, carbs |-> 55, fat |-> 24,
      cuisines |-> <<"mediterranean">>],
     [name |-> <<"S","t","i","r"," ","F","r","y"," ","w","i","t","h"," ","T","o","f","u">>,
      calories |-> 400, protein |-> 20, carbs |-> 45, fat |-> 15,
      cuisines |-> <<"asian", "any">>],
     [name |-> <<"C","h","i","c","k","e","n"," ","T","i","k","k","a"," ","w","i","t","h"," ","R","o","t","i">>,
      calories |-> 550, protein |-> 35, carbs |-> 50, fat |-> 20,
      cuisines |-> <<"indian">>] >>

\* MEAL_TEMPLATES["dinner"]; a name is the sequence of its characters.
DinnerTemplates ==
  << [name |-> <<"B","a","k","e","d"," ","S","a","l","m","o","n"," ","w","i","t","h"," ","V","e","g","e","t","a","b","l","e","s">>,
      calories |-> 500, protein |-> 40, carbs |-> 25, fat |-> 28,
      cuisines |-> <<"any">>],
     [name |-> <<"C","h","i","c","k","e","n"," ","S","t","i","r"," ","F","r","y">>,
      calories |-> 480, protein |-> 35, carbs |-> 40, fat |-> 18,
      cuisines |-> <<"asian", "any">>],
     [name |-> <<"V","e","g","e","t","a","b","l","e"," ","C","u","r","r","y"," ","w","i","t","h"," ","R","i","c","e">>,
      calories |-> 520, protein |-> 14, carbs |-> 75, fat |-> 16,
      cuisines |-> <<"indian">>],
     [name |-> <<"G","r","i","l","l","e","d"," ","S","t","e","a","k"," ","w","i","t","h"," ","S","w","e","e","t"," ","P","o","t","a","t","o">>,
      calories |-> 600, protein |-> 45, carbs |-> 40, fat |-> 28,
      cuisines |-> <<"american", "any">>],
     [name |-> <<"P","a","s","t","a"," ","P","r","i","m","a","v","e","r","a">>,
      calories |-> 480, protein |-> 16, carbs |-> 70, fat |-> 14,
      cuisines |-> <<"italian", "any">>],
     [name |-> <<"F","i","s","h"," ","T","a","c","o","s">>,
      calories |-> 450, protein |-> 28, carbs |-> 45, fat |-> 18,
      cuisines |-> <<"mexican", "any">>],
     [name |-> <<"P","a","l","a","k"," ","P","a","n","e","e","r"," ","w","i","t","h"," ","N","a","a","n">>,
      calories |-> 550, protein |-> 22, carbs |-> 55, fat |-> 26,
      cuisines |-> <<"indian">>] >>

\* MEAL_TEMPLATES["snacks"]; a name is the sequence of its characters.
SnackTemplates ==
  << [name |-> <<"A","p","p","l","e"," ","w","i","t","h"," ","A","l","m","o","n","d"," ","B","u","t","t","e","r">>,
      calories |-> 200, protein |-> 5, carbs |-> 25, fat |-> 10,
      cuisines |-> <<"any">>],
     [name |-> <<"G","r","e","e","k"," ","Y","o","g","u","r","t">>,
      calories |-> 150, protein |-> 15, carbs |-> 10, fat |-> 5,
      cuisines |-> <<"any">>],
     [name |-> <<"M","i","x","e","d"," ","N","u","t","s">>,
      calories |-> 180, protein |-> 5, carbs |-> 8, fat |-> 16,
      cuisines |-> <<"any">>],
     [name |-> <<"H","u","m","m","u","s"," ","w","i","t","h"," ","V","e","g","g","i","e","s">>,
      calories |-> 150, protein |-> 6, carbs |-> 15, fat |-> 8,
      cuisines |-> <<"mediterranean", "any">>],
     [name |-> <<"P","r","o","t","e","i","n"," ","B","a","r">>,
      calories |-> 200, protein |-> 20, carbs |-> 22, fat |-> 8,
      cuisines |-> <<"any">>],
     [name |-> <<"R","o","a","s","t","e","d"," ","C","h","i","c","k","p","e","a","s">>,
      calories |-> 130, protein |-> 6, carbs |-> 20, fat |-> 3,
      cuisines |-> <<"indian", "any">>] >>
MEAL_TEMPLATES ==
  [breakfast |-> BreakfastTemplates, lunch |-> LunchTemplates,
   dinner |-> DinnerTemplates, snacks |-> SnackTemplates]

\* The banned words of _filter_by_restrictions: vegetarian and vegan; vegan; gluten-free.
MeatWords ==
  << <<"c","h","i","c","k","e","n">>,
     <<"b","e","e","f">>,
     <<"f","i","s","h">>,
     <<"s","a","l","m","o","n">>,
     <<"s","t","e","a","k">>,
     <<"t","u","r","k","e","y">>,
     <<"m","e","a","t">> >>
AnimalWords ==
  << <<"e","g","g">>,
     <<"y","o","g","u","r","t">>,
     <<"c","h","e","e","s","e">>,
     <<"p","a","n","e","e","r">>,
     <<"m","i","l","k">> >>
GlutenWords ==
  << <<"b","r","e","a","d">>,
     <<"t","o","a","s","t">>,
     <<"p","a","s","t","a">>,
     <<"n","a","a","n">>,
     <<"r","o","t","i">>,
     <<"w","r","a","p">> >>

\* The body of the for loop over the restrictions in _filter_by_restrictions:
\* whether some restriction excludes a meal of this lower-cased name.
Excluded(name_lower, restrictions) ==
  \E k \in 1..Len(restrictions) :
    LET restriction_lower == LowerTag(restrictions[k]) IN
      \/ restriction_lower \in {"vegetarian", "vegan"} /\ AnyWordIn(MeatWords, name_lower)
      \/ restriction_lower = "vegan" /\ AnyWordIn(AnimalWords, name_lower)
      \/ restriction_lower = "gluten-free" /\ AnyWordIn(GlutenWords, name_lower)

\* The filter without meals[:2].
_filter_by_restrictions_NoFallback(meals, restrictions) ==
  IF restrictions = <<>> THEN meals
  ELSE SelectSeq(meals, LAMBDA meal : ~Excluded(Lower(meal.name), restrictions))

_filter_by_restrictions(meals, restrictions) ==
  IF restrictions = <<>> THEN meals
  ELSE LET Keep(meal) == ~Excluded(Lower(meal.name), restrictions)
           filtered == SelectSeq(meals, Keep)
       IN IF filtered # <<>> THEN filtered ELSE SubSeq(meals, 1, Min(2, Len(meals)))

\* The cuisine filter that falls back to the whole list of the templates its
\* meals come from.
_filter_by_cuisine_FallbackToCatalog(meals, preferences) ==
  IF preferences = <<>> \/ meals = <<>> THEN meals
  ELSE LET prefs_lower == LowerTags(preferences)
           Keep(meal) ==
             LET meal_cuisines == LowerTags(Get(meal, "cuisines", <<"any">>)) IN
               \/ \E i \in 1..Len(meal_cuisines) : meal_cuisines[i] = "any"
               \/ \E p \in 1..Len(prefs_lower) :
                    \E i \in 1..Len(meal_cuisines) : meal_cuisines[i] = prefs_lower[p]
           filtered == SelectSeq(meals, Keep)
           catalog == { MEAL_TEMPLATES[t] : t \in DOMAIN MEAL_TEMPLATES }
           lists == { t \in catalog : \E i \in 1..Len(t) : t[i] = meals[1] }
       IN IF filtered # <<>> THEN filtered
          ELSE IF lists = {} THEN meals ELSE CHOOSE t \in lists : TRUE

_filter_by_cuisine(meals, preferences) ==
  IF preferences = <<>> THEN meals
  ELSE LET prefs_lower == LowerTags(preferences)
           Keep(meal) ==
             LET meal_cuisines == LowerTags(Get(meal, "cuisines", <<"any">>)) IN
               \/ \E i \in 1..Len(meal_cuisines) : meal_cuisines[i] = "any"
               \/ \E p \in 1..Len(prefs_lower) :
                    \E i \in 1..Len(meal_cuisines) : meal_cuisines[i] = prefs_lower[p]
           filtered == SelectSeq(meals, Keep)
       IN IF filtered # <<>> THEN filtered ELSE meals

\* random.choice(seq) with the generator in state r: an IndexError on an empty seq.
RandomChoice(seq, r) == IF seq = <<>> THEN Raised ELSE Ok(seq[(r % Len(seq)) + 1])

\* The candidates with the recent meals left in.
Available_WithRecent(meal_type, restrictions, cuisine_preferences, recent_meals) ==
  _filter_by_cuisine(
    _filter_by_restrictions(Get(MEAL_TEMPLATES, meal_type, <<>>), restrictions),
    cuisine_preferences)

\* The candidates of one slot in generate_meal_plan, after the filters and
\* after the recent meals were removed.
Available(meal_type, restrictions, cuisine_preferences, recent_meals) ==
  LET options == _filter_by_cuisine(
                   _filter_by_restrictions(Get(MEAL_TEMPLATES, meal_type, <<>>), restrictions),
                   cuisine_preferences)
      NotRecent(m) == \A i \in 1..Len(recent_meals) : recent_meals[i] # m.name
      available == SelectSeq(options, NotRecent)
  IN IF available = <<>> THEN options ELSE available

\* The dict generate_meal_plan builds for a chosen meal of a slot.
PlanMeal(meal, meal_type) ==
  [name |-> meal.name, description |-> <<"A healthy", meal_type, "option">>,
   calories |-> meal.calories, protein |-> meal.protein, carbs |-> meal.carbs,
   fat |-> meal.fat, prep_time_minutes |-> 20, ingredients |-> <<>>]

PlanSnack(snack) ==
  [name |-> snack.name, calories |-> snack.calories, protein |-> snack.protein,
   carbs |-> snack.carbs, fat |-> snack.fat]

MealSlots == <<"breakfast", "lunch", "dinner">>

\* RuleBasedProvider.generate_meal_plan; r is the state of the random generator,
\* which the random.choice of slot k finds advanced by k - 1 (the snack: by 3).
RuleGenerate(user, target_calories, restrictions, cuisine_preferences, recent_meals, r) ==
  LET distribution == get_meal_distribution(user.meal_frequency,
                                            OrElse(user.goal_type, "maintenance"))
      present == {k \in 1..3 : MealSlots[k] \in DOMAIN distribution}
      choice == [k \in present |->
                   RandomChoice(Available(MealSlots[k], restrictions,
                                          cuisine_preferences, recent_meals), r + k - 1)]
      snack_calories == (target_calories * Get(distribution, "snacks", 10)) \div 100
      snack == RandomChoice(_filter_by_restrictions(MEAL_TEMPLATES["snacks"], restrictions),
                            r + 3)
      meals == [s \in {MealSlots[k] : k \in present} |->
                  LET k == CHOOSE j \in present : MealSlots[j] = s
                  IN PlanMeal(choice[k].value, s)]
      snacks == IF snack_calories > 0 THEN << PlanSnack(snack.value) >> ELSE <<>>
  IN IF (\E k \in present : choice[k].raised) \/ (snack_calories > 0 /\ snack.raised)
       THEN Raised
       ELSE Ok(meals @@ [shopping_list |-> <<>>, snacks |-> snacks])

\* RuleBasedProvider.parse_food_log
RuleParse(food_description) == Ok(estimate_food_nutrition(food_description))

\* min(options, key=...): the first option at the least distance; a ValueError
\* on an empty list.
ClosestMeal(options, remaining_calories) ==
  LET Dist(i) == Abs(options[i].calories - remaining_calories)
      best == CHOOSE i \in 1..Len(options) :
                /\ \A j \in 1..Len(options) : Dist(i) <= Dist(j)
                /\ \A j \in 1..(i - 1) : Dist(j) > Dist(i)
  IN options[best]

\* RuleBasedProvider.get_meal_suggestion; the result is a Meal.
RuleSuggest(user, meal_type, remaining_calories) ==
  LET options == _filter_by_cuisine(
                   _filter_by_restrictions(
                     Get(MEAL_TEMPLATES, meal_type, MEAL_TEMPLATES["snacks"]),
                     user.restrictions),
                   user.cuisine_preferences)
  IN IF options = <<>> THEN Raised
     ELSE LET best == ClosestMeal(options, remaining_calories) IN
          Ok([name |-> best.name,
              description |-> Some(<<"A healthy", meal_type, "option">>),
              ingredients |-> <<>>, recipe |-> NoneV,
              prep_time_minutes |-> Some(15),
              calories |-> best.calories, protein |-> best.protein,
              carbs |-> best.carbs, fat |-> best.fat, estimated_cost |-> NoneV])

-----------------------------------------------------------------------------
(* The AI providers (OllamaProvider, GroqProvider, GeminiProvider).  What the *)
(* external service answers is an input: reply.kind is "error" when _query  *)
(* raises (network error, timeout, HTTP error status) or json.loads raises  *)
(* (the text is no JSON), and "json" when the text parses, to reply.value.  *)
(* A parsed value that is no JSON object is [json_type |-> "list"].         *)

IsDict(v) == "json_type" \notin DOMAIN v

\* generate_meal_plan and parse_food_log of an AI provider: json.loads(response)
AIProviderJson(reply) == IF reply.kind = "error" THEN Raised ELSE Ok(reply.value)

\* Meal(**data): a TypeError when data is no dict, a ValidationError when the
\* required name is missing; the other fields take their defaults.
MealFromDict(data) ==
  IF ~IsDict(data) \/ "name" \notin DOMAIN data THEN Raised
  ELSE Ok([name |-> data.name,
           description |-> Get(data, "description", NoneV),
           ingredients |-> Get(data, "ingredients", <<>>),
           recipe |-> Get(data, "recipe", NoneV),
           prep_time_minutes |-> Get(data, "prep_time_minutes", NoneV),
           calories |-> Get(data, "calories", 0), protein |-> Get(data, "protein", 0),
           carbs |-> Get(data, "carbs", 0), fat |-> Get(data, "fat", 0),
           estimated_cost |-> Get(data, "estimated_cost", NoneV)])

\* get_meal_suggestion of an AI provider
AIProviderSuggest(reply) ==
  IF reply.kind = "error" THEN Raised ELSE MealFromDict(reply.value)

Providers == {"ollama", "groq", "gemini", "rule_based"}

\* AIPlanner.__init__: whether the configured provider is an AI provider.
IsAIProvider(provider) == provider \in {"ollama", "groq", "gemini"}

-----------------------------------------------------------------------------
(* AIPlanner *)

\* Mutant: the provider's exception is not caught.
TryExcept_NoExcept(first, fallback) == first

\* try: return await ...  except Exception: return await fallback ...
TryExcept(first, fallback) == IF first.raised THEN fallback ELSE first

\* AIPlanner.generate_meal_plan
generate_meal_plan(provider, user, recent_meals, reply, r) ==
  LET target_calories == OrInt(user.target_calories, 2000)
      restrictions == user.restrictions
      cuisine_preferences == user.cuisine_preferences
      rule == RuleGenerate(user, target_calories, restrictions,
                           cuisine_preferences, recent_meals, r)
  IN TryExcept(IF IsAIProvider(provider) THEN AIProviderJson(reply) ELSE rule, rule)

\* AIPlanner.parse_food_log
parse_food_log(provider, food_description, reply) ==
  TryExcept(IF IsAIProvider(provider) THEN AIProviderJson(reply)
                                       ELSE RuleParse(food_description),
            Ok(estimate_food_nutrition(food_description)))

\* AIPlanner.get_meal_suggestion
get_meal_suggestion(provider, user, meal_type, remaining_calories, reply) ==
  LET rule == RuleSuggest(user, meal_type, remaining_calories) IN
  TryExcept(IF IsAIProvider(provider) THEN AIProviderSuggest(reply) ELSE rule, rule)

-----------------------------------------------------------------------------
(* The inputs of the AIPlanner calls *)

MaxRng == 2
RngStates == 0..MaxRng

\* UserUpdate.meal_frequency: Field(None, ge=1, le=8)
MinMealFrequency == 1
MaxMealFrequency == 8

\* The users row create_user inserts: the defaults of the User model.
NewUser(id) ==
  [id |-> id, name |-> NoneV, age |-> NoneV, gender |-> NoneV, height_cm |-> NoneV,
   weight_kg |-> NoneV, activity_level |-> NoneV, goal_type |-> NoneV,
   target_calories |-> NoneV, target_protein |-> NoneV, target_carbs |-> NoneV,
   target_fat |-> NoneV, restrictions |-> <<>>, cuisine_preferences |-> <<>>,
   meal_frequency |-> 3, budget |-> "moderate"]

PlannerUser(f, g, t, rs, cs) ==
  [NewUser(1) EXCEPT !.meal_frequency = f, !.goal_type = g, !.target_calories = t,
                     !.restrictions = rs, !.cuisine_preferences = cs]

RestrictionLists == { <<>>, <<"Vegan", "gluten-free">>, <<"nut allergy">> }
CuisineLists == { <<>>, <<"Indian">> }
GoalOptions == { NoneV, Some("intermittent_fasting") }
TargetOptions == { NoneV, Some(5) }

PlannerUsers ==
  { PlannerUser(f, g, t, rs, cs) :
      f \in MinMealFrequency..MaxMealFrequency, g \in GoalOptions,
      t \in TargetOptions, rs \in RestrictionLists, cs \in CuisineLists }

\* The users of the get_meal_suggestion calls: the default frequency and no goal.
SuggestUsers ==
  { PlannerUser(3, NoneV, NoneV, rs, cs) :
      rs \in RestrictionLists \cup { <<"vegetarian">> }, cs \in CuisineLists }

RecentLists ==
  { <<>>,
    << <<"O","a","t","m","e","a","l"," ","w","i","t","h"," ","B","e","r","r","i","e","s">>,
       <<"Q","u","i","n","o","a"," ","B","u","d","d","h","a"," ","B","o","w","l">>,
       <<"B","a","k","e","d"," ","S","a","l","m","o","n"," ","w","i","t","h"," ","V","e","g","e","t","a","b","l","e","s">> >>,
    [i \in 1..Len(BreakfastTemplates) |-> BreakfastTemplates[i].name] }

FoodDescriptions ==
  { <<"g","r","i","l","l","e","d"," ","c","h","i","c","k","e","n"," ","b","r","e","a","s","t">>,
    <<"S","a","l","a","d"," ","B","o","w","l">>,
    <<"E","G","G"," ","f","r","i","e","d"," ","r","i","c","e">>,
    <<"k","a","l","e"," ","c","h","i","p","s">>,
    <<>> }

SuggestMealTypes == {"breakfast", "lunch", "dinner", "snack"}
RemainingCalories == {-100, 50, 300, 520}

\* A reply that has the plan shape the prompt asks for (two snacks).
GoodAIPlan ==
  [breakfast |-> [name |-> <<"C","h","i","a"," ","P","u","d","d","i","n","g">>, description |-> <<"d">>, calories |-> 410,
                  protein |-> 21, carbs |-> 52, fat |-> 12, prep_time_minutes |-> 10,
                  ingredients |-> <<>>],
   lunch |-> [name |-> <<"L","e","n","t","i","l"," ","S","o","u","p">>, description |-> <<"d">>, calories |-> 630,
              protein |-> 38, carbs |-> 70, fat |-> 19, prep_time_minutes |-> 25,
              ingredients |-> <<>>],
   dinner |-> [name |-> <<"B","e","e","f"," ","S","t","e","w">>, description |-> <<"d">>, calories |-> 700,
               protein |-> 45, carbs |-> 60, fat |-> 27, prep_time_minutes |-> 30,
               ingredients |-> <<>>],
   snacks |-> << [name |-> <<"A","l","m","o","n","d","s">>, calories |-> 160, protein |-> 6, carbs |-> 9,
                  fat |-> 14],
                 [name |-> <<"B","a","n","a","n","a">>, calories |-> 105, protein |-> 1, carbs |-> 27,
                  fat |-> 0] >>,
   shopping_list |-> <<>>]

GoodAINutrition == [calories |-> 320, protein |-> 24, carbs |-> 30, fat |-> 11]

GoodAIMeal ==
  [name |-> <<"R","i","c","e"," ","C","a","k","e","s">>, description |-> Some(<<"d">>), calories |-> 290, protein |-> 12,
   carbs |-> 41, fat |-> 9, prep_time_minutes |-> Some(10)]

\* Replies that parse as JSON without the shape asked for.
WrongShapeDict == [foo |-> 1]
JsonList == [json_type |-> "list"]

ErrorReply == [kind |-> "error", value |-> EmptyDict]
JsonReply(v) == [kind |-> "json", value |-> v]

PlanReplies == { ErrorReply, JsonReply(GoodAIPlan), JsonReply(WrongShapeDict),
                 JsonReply(JsonList) }
NutritionReplies == { ErrorReply, JsonReply(GoodAINutrition), JsonReply(WrongShapeDict),
                      JsonReply(JsonList) }
MealReplies == { ErrorReply, JsonReply(GoodAIMeal), JsonReply(WrongShapeDict),
                 JsonReply(JsonList) }

PlannerCall(method, provider, user, recent, desc, meal_type, remaining, reply, r) ==
  [method |-> method, provider |-> provider, user |-> user, recent_meals |-> recent,
   food_description |-> desc, meal_type |-> meal_type,
   remaining_calories |-> remaining, reply |-> reply, r |-> r,
   done |-> FALSE, outcome |-> Raised]

DefaultUser == PlannerUser(3, NoneV, NoneV, <<>>, <<>>)

\* The rule-based provider asks no service: its calls are drawn with one reply.
RepliesFor(provider, replies) == IF IsAIProvider(provider) THEN replies ELSE {ErrorReply}

PlannerCalls ==
  { c \in { PlannerCall("generate_meal_plan", p, u, rec, <<>>, "snack", 300, rep, r) :
              p \in Providers, u \in PlannerUsers, rec \in RecentLists,
              rep \in PlanReplies, r \in RngStates } :
      c.reply \in RepliesFor(c.provider, PlanReplies) }
  \cup
  { c \in { PlannerCall("parse_food_log", p, DefaultUser, <<>>, d, "snack", 300, rep, 0) :
              p \in Providers, d \in FoodDescriptions, rep \in NutritionReplies } :
      c.reply \in RepliesFor(c.provider, NutritionReplies) }
  \cup
  { c \in { PlannerCall("get_meal_suggestion", p, u, <<>>, <<>>, mt, rem, rep, 0) :
              p \in Providers, u \in SuggestUsers, mt \in SuggestMealTypes,
              rem \in RemainingCalories, rep \in MealReplies } :
      c.reply \in RepliesFor(c.provider, MealReplies) }

-----------------------------------------------------------------------------
(* The AIPlanner calls as steps: a call drawn at the start is made once. *)

CallGenerate ==
  /\ UNCHANGED << envVars, planVars, streakVars, profileVars, trackerVars >>
  /\ lastCall.method = "generate_meal_plan" /\ ~lastCall.done
  /\ lastCall' = [lastCall EXCEPT
       !.done = TRUE,
       !.outcome = generate_meal_plan(lastCall.provider, lastCall.user,
                                      lastCall.recent_meals, lastCall.reply, lastCall.r)]

CallParse ==
  /\ UNCHANGED << envVars, planVars, streakVars, profileVars, trackerVars >>
  /\ lastCall.method = "parse_food_log" /\ ~lastCall.done
  /\ lastCall' = [lastCall EXCEPT
       !.done = TRUE,
       !.outcome = parse_food_log(lastCall.provider, lastCall.food_description,
                                  lastCall.reply)]

CallSuggest ==
  /\ UNCHANGED << envVars, planVars, streakVars, profileVars, trackerVars >>
  /\ lastCall.method = "get_meal_suggestion" /\ ~lastCall.done
  /\ lastCall' = [lastCall EXCEPT
       !.done = TRUE,
       !.outcome = get_meal_suggestion(lastCall.provider, lastCall.user,
                                       lastCall.meal_type, lastCall.remaining_calories,
                                       lastCall.reply)]

-----------------------------------------------------------------------------
(* Numbers *)

\* The quotient cut to the integer below it.
Round_Down(num, den) == num \div den

\* round(num / den) of Python: to the nearest integer, a tie to the even one.
Round(num, den) ==
  LET q == num \div den
      r == num % den
  IN  IF 2 * r < den THEN q
      ELSE IF 2 * r > den THEN q + 1
      ELSE IF q % 2 = 0 THEN q ELSE q + 1

-----------------------------------------------------------------------------
(* DatabaseService: the streaks.  The table holds one row per user and      *)
(* streak type.  update_streak reads the row and then writes it, in two     *)
(* requests to the store; the bot and the API server run in two threads, so *)
(* the requests of two calls interleave.                                    *)

Threads == { "bot", "api" }
StreakUsers == { 1 }
StreakTypes == { "logging", "water" }
StreakKeys == StreakUsers \X StreakTypes

\* The streak types a thread updates: the bot on /log and on a quick log, the
\* API server on sync/food and on sync/water.
TypesOf(thread) == IF thread = "bot" THEN { "logging" } ELSE { "logging", "water" }

\* get_streak: the row of the user and the type, or None.
get_streak(key) == IF key \in DOMAIN streaks THEN streaks[key] ELSE NoneV

\* The changes when a broken streak also starts longest_streak over.
StreakUpdate_ForgetLongest(streak, day) ==
  IF streak.last_activity_date = Some(day) THEN NoneV
  ELSE IF streak.last_activity_date = Some(day - 1)
  THEN Some([current_streak |-> streak.current_streak + 1,
             longest_streak |-> IF streak.longest_streak >= streak.current_streak + 1
                                THEN streak.longest_streak
                                ELSE streak.current_streak + 1,
             last_activity_date |-> Some(day)])
  ELSE Some([current_streak |-> 1, longest_streak |-> 1, last_activity_date |-> Some(day)])

\* The changes when a second call on the same day counts the day again.
StreakUpdate_AgainToday(streak, day) ==
  IF streak.last_activity_date = Some(day) \/ streak.last_activity_date = Some(day - 1)
  THEN Some([current_streak |-> streak.current_streak + 1,
             longest_streak |-> IF streak.longest_streak >= streak.current_streak + 1
                                THEN streak.longest_streak
                                ELSE streak.current_streak + 1,
             last_activity_date |-> Some(day)])
  ELSE Some([current_streak |-> 1, longest_streak |-> streak.longest_streak,
             last_activity_date |-> Some(day)])

\* The changes without the check of a second call on the same day.
StreakUpdate_NoSameDay(streak, day) ==
  IF streak.last_activity_date = Some(day - 1)
  THEN Some([current_streak |-> streak.current_streak + 1,
             longest_streak |-> IF streak.longest_streak >= streak.current_streak + 1
                                THEN streak.longest_streak
                                ELSE streak.current_streak + 1,
             last_activity_date |-> Some(day)])
  ELSE Some([current_streak |-> 1, longest_streak |-> streak.longest_streak,
             last_activity_date |-> Some(day)])

\* What update_streak writes to the row it has read (None: it returns the row).
StreakUpdate(streak, day) ==
  IF streak.last_activity_date = Some(day) THEN NoneV
  ELSE IF streak.last_activity_date = Some(day - 1)
  THEN Some([current_streak |-> streak.current_streak + 1,
             longest_streak |-> IF streak.longest_streak >= streak.current_streak + 1
                                THEN streak.longest_streak
                                ELSE streak.current_streak + 1,
             last_activity_date |-> Some(day)])
  ELSE Some([current_streak |-> 1, longest_streak |-> streak.longest_streak,
             last_activity_date |-> Some(day)])

\* The row update_streak inserts when it has read none.
NewStreak(day) ==
  [current_streak |-> 1, longest_streak |-> 1, last_activity_date |-> Some(day)]

NoStreakCall == [pc |-> "idle", key |-> << 1, "logging" >>, seen |-> NoneV, result |-> NoneV]
NoStreaks == [key \in StreakKeys |-> NoneV]
NoStreakWrites == [key \in StreakKeys |-> 0]

\* The store keeps one row per user and streak type: it refuses the insert of
\* a second one.
InsertRefused(key) == streaks[key] # NoneV

\* update_streak, up to the answer of get_streak.
StreakRead(thread, key) ==
  /\ streakCalls[thread].pc # "read"
  /\ streakCalls' = [streakCalls EXCEPT ![thread] =
       [pc |-> "read", key |-> key, seen |-> get_streak(key), result |-> NoneV]]
  /\ UNCHANGED << streaks, streakWrites, envVars, plannerVars, planVars, profileVars,
                  trackerVars >>

\* update_streak, from the answer of get_streak on: the early return, the
\* update or the insert.
StreakWrite(thread) ==
  LET call == streakCalls[thread]
      change == IF call.seen = NoneV THEN Some(NewStreak(today))
                ELSE StreakUpdate(call.seen[1], today)
      refused == call.seen = NoneV /\ InsertRefused(call.key)
      row == IF change = NoneV \/ refused THEN streaks[call.key] ELSE change
  IN  /\ call.pc = "read"
      /\ streaks' = [streaks EXCEPT ![call.key] = row]
      /\ streakWrites' = [streakWrites EXCEPT ![call.key] =
                            IF row # streaks[call.key] THEN @ + 1 ELSE @]
      /\ streakCalls' = [streakCalls EXCEPT ![thread] =
           [call EXCEPT !.pc = IF refused THEN "raised" ELSE "done",
                        !.result = IF refused THEN NoneV
                                   ELSE IF change = NoneV THEN call.seen ELSE change]]
      /\ UNCHANGED << envVars, plannerVars, planVars, profileVars, trackerVars >>

-----------------------------------------------------------------------------
(* Floats and the texts they are parsed from.  A float is a number of       *)
(* hundredths or nan; every comparison with nan is false.                   *)

Float(v) == [nan |-> FALSE, v |-> v]
NaN == [nan |-> TRUE, v |-> 0]
Lt(x, bound) == ~x.nan /\ x.v < bound
Gt(x, bound) == ~x.nan /\ x.v > bound
Ge(x, bound) == ~x.nan /\ x.v >= bound
Le(x, bound) == ~x.nan /\ x.v <= bound

\* A text: a decimal numeral (its value in hundredths), "nan", or a word.
Numeral(v) == [kind |-> "numeral", v |-> v]
NanText == [kind |-> "nan", v |-> 0]
WordText == [kind |-> "word", v |-> 0]

\* int(text): a numeral without a fraction, or ValueError.
ParseInt(text) ==
  IF text.kind = "numeral" /\ text.v % 100 = 0 THEN Ok(text.v \div 100) ELSE Raised

\* float(text): a numeral or nan, or ValueError.
ParseFloat(text) ==
  IF text.kind = "numeral" THEN Ok(Float(text.v))
  ELSE IF text.kind = "nan" THEN Ok(NaN)
  ELSE Raised

-----------------------------------------------------------------------------
(* NutritionCalculator: the targets.  The sums are exact, in units of       *)
(* 0.0001; weight_kg and height_cm are numbers of hundredths.               *)

\* In thousandths.
ACTIVITY_MULTIPLIERS(activity_level) ==
  CASE activity_level = "sedentary" -> 1200
    [] activity_level = "light" -> 1375
    [] activity_level = "moderate" -> 1550
    [] activity_level = "active" -> 1725
    [] activity_level = "very_active" -> 1900
    [] OTHER -> 1200

\* In hundredths.
GOAL_ADJUSTMENTS(goal_type) ==
  CASE goal_type = "weight_loss" -> 80
    [] goal_type = "muscle_gain" -> 115
    [] goal_type = "maintenance" -> 100
    [] goal_type = "keto" -> 85
    [] goal_type = "intermittent_fasting" -> 90
    [] OTHER -> 100

\* <<protein, carbs, fat>>, in hundredths.
MACRO_RATIOS(goal_type) ==
  CASE goal_type = "weight_loss" -> << 35, 35, 30 >>
    [] goal_type = "muscle_gain" -> << 30, 45, 25 >>
    [] goal_type = "maintenance" -> << 25, 50, 25 >>
    [] goal_type = "keto" -> << 25, 5, 70 >>
    [] goal_type = "intermittent_fasting" -> << 30, 40, 30 >>
    [] OTHER -> << 25, 50, 25 >>

\* For "other", the average of the two rounded values.
calculate_bmr_OfRounded(weight_kg, height_cm, age, gender) ==
  LET base == 1000 * weight_kg + 625 * height_cm - 50000 * age
      male_bmr == Round(base + 50000, 10000)
      female_bmr == Round(base - 1610000, 10000)
  IN  IF gender = "male" THEN male_bmr
      ELSE IF gender = "female" THEN female_bmr
      ELSE (male_bmr + female_bmr) \div 2

calculate_bmr(weight_kg, height_cm, age, gender) ==
  LET base == 1000 * weight_kg + 625 * height_cm - 50000 * age
      male_bmr == base + 50000
      female_bmr == base - 1610000
  IN  IF gender = "male" THEN Round(male_bmr, 10000)
      ELSE IF gender = "female" THEN Round(female_bmr, 10000)
      ELSE Round(male_bmr + female_bmr, 20000)

\* The multiplier applied to the value of the formula before it is rounded.
calculate_tdee_RawBmr(weight_kg, height_cm, age, gender, activity_level) ==
  LET offset == IF gender = "male" THEN 50000
                ELSE IF gender = "female" THEN -1610000 ELSE -780000
      \* the value of the formula in units of 0.0025
      bmr == (1000 * weight_kg + 625 * height_cm - 50000 * age + offset) \div 25
  IN  Round(bmr * ACTIVITY_MULTIPLIERS(activity_level), 400000)

calculate_tdee(weight_kg, height_cm, age, gender, activity_level) ==
  Round(calculate_bmr(weight_kg, height_cm, age, gender)
          * ACTIVITY_MULTIPLIERS(activity_level), 1000)

\* calculate_targets without custom_calories; round raises on nan.
calculate_targets(weight_kg, height_cm, age, gender, activity_level, goal_type) ==
  IF weight_kg.nan \/ height_cm.nan THEN Raised
  ELSE LET tdee == calculate_tdee(weight_kg.v, height_cm.v, age, gender, activity_level)
           target_calories == Round(tdee * GOAL_ADJUSTMENTS(goal_type), 100)
           ratios == MACRO_RATIOS(goal_type)
       IN  Ok([calories |-> target_calories,
               protein |-> Round(target_calories * ratios[1], 400),
               carbs |-> Round(target_calories * ratios[2], 400),
               fat |-> Round(target_calories * ratios[3], 900)])

-----------------------------------------------------------------------------
(* The models that validate a profile update and a weight log *)

MinAge == 10
MaxAge == 120
MinHeight == 5000
MaxHeight == 30000
MinWeight == 2000
MaxWeight == 50000
MinTargetCalories == 800
MaxTargetCalories == 10000
MaxTargetProtein == 500
MaxTargetCarbs == 1000
MaxTargetFat == 500

InRangeInt(data, field, low, high) ==
  field \in DOMAIN data => (data[field] >= low /\ data[field] <= high)
InRangeFloat(data, field, low, high) ==
  field \in DOMAIN data => (Ge(data[field], low) /\ Le(data[field], high))
OneOf(data, field, values) == field \in DOMAIN data => data[field] \in values

\* A weight log that takes any weight.
WeightLogCreate_Unchecked(weight_kg) == TRUE

\* Whether WeightLogCreate(weight_kg=...) validates.
WeightLogCreate(weight_kg) == Ge(weight_kg, MinWeight) /\ Le(weight_kg, MaxWeight)

\* Whether UserUpdate(**data) validates.
UserUpdate(data) ==
  /\ InRangeInt(data, "age", MinAge, MaxAge)
  /\ OneOf(data, "gender", { "male", "female", "other" })
  /\ InRangeFloat(data, "height_cm", MinHeight, MaxHeight)
  /\ InRangeFloat(data, "weight_kg", MinWeight, MaxWeight)
  /\ OneOf(data, "activity_level",
           { "sedentary", "light", "moderate", "active", "very_active" })
  /\ OneOf(data, "goal_type", { "weight_loss", "muscle_gain", "maintenance", "keto",
                                "intermittent_fasting" })
  /\ InRangeInt(data, "target_calories", MinTargetCalories, MaxTargetCalories)
  /\ InRangeInt(data, "target_protein", 0, MaxTargetProtein)
  /\ InRangeInt(data, "target_carbs", 0, MaxTargetCarbs)
  /\ InRangeInt(data, "target_fat", 0, MaxTargetFat)
  /\ InRangeInt(data, "meal_frequency", MinMealFrequency, MaxMealFrequency)

\* d[k] = v on a dict.
Put(d, k, v) == [x \in DOMAIN d \cup { k } |-> IF x = k THEN v ELSE d[x]]

\* The fields of a users row that are not Optional.
PlainFields == { "restrictions", "cuisine_preferences", "meal_frequency", "budget" }

\* The users row after update_user: the fields of the update replace the row's.
update_user(row, data) ==
  [field \in DOMAIN row |->
     IF field \in DOMAIN data
     THEN IF field \in PlainFields THEN data[field] ELSE Some(data[field])
     ELSE row[field]]

WeightLogRow(user_id, weight_kg, logged_at) ==
  [user_id |-> user_id, weight_kg |-> weight_kg, logged_at |-> logged_at]

-----------------------------------------------------------------------------
(* The onboarding conversation, /weight and sync/weight, for one user.      *)
(* lastReply tells the request of the last step, the value it carried and   *)
(* how it was answered: "ok", "invalid" (asked again), "raised" (the        *)
(* handler raised; the API answers 500) or "not_found".                     *)

MaxWeightLogs == 2

Reply(request, value, status) == [request |-> request, value |-> value, status |-> status]
NoReply == Reply("none", WordText, "ok")

\* The answers and the requests: for each range the values just outside it, its
\* ends, nan and a word.
AgeTexts == { Numeral(900), Numeral(1000), Numeral(3050), Numeral(12000),
              Numeral(12100), WordText }
HeightTexts == { Numeral(4999), Numeral(5000), Numeral(30000), Numeral(30001), NanText }
WeightTexts == { Numeral(1999), Numeral(2000), Numeral(50000), Numeral(50001), NanText }
SyncWeights == { Float(1999), Float(2000), Float(50000), Float(50001), NaN }
Genders == { "female" }
ActivityLevels == { "sedentary" }
GoalTypes == { "maintenance" }
RestrictionTexts == { << "none" >>, << "vegan", "" >> }
CuisineTexts == { << "any" >> }

\* [r.strip() for r in text.split(",") if r.strip()], on the parts of the text.
NonEmptyParts(parts) == SelectSeq(parts, LAMBDA part : part # "")

\* c.title() of the cuisines the inputs name.
TitleTag(c) ==
  CASE c = "indian" -> "Indian" [] c = "italian" -> "Italian" [] c = "thai" -> "Thai"
    [] OTHER -> c

start_command ==
  /\ convState = "END"
  /\ IF profile # NoneV /\ profile[1].name # NoneV
     THEN /\ lastReply' = Reply("start", WordText, "ok")
          /\ UNCHANGED << profile, convState >>
     ELSE /\ profile' = IF profile = NoneV THEN Some(NewUser(1)) ELSE profile
          /\ convState' = "NAME"
          /\ lastReply' = Reply("start", WordText, "ok")
  /\ UNCHANGED << userData, weightLogs, envVars, plannerVars, planVars, streakVars,
                  trackerVars >>

get_name(name) ==
  /\ convState = "NAME"
  /\ userData' = Put(userData, "name", name)
  /\ convState' = "AGE"
  /\ lastReply' = Reply("get_name", WordText, "ok")
  /\ UNCHANGED << profile, weightLogs, envVars, plannerVars, planVars, streakVars,
                  trackerVars >>

get_age(text) ==
  LET age == ParseInt(text)
      valid == ~age.raised /\ ~(age.value < MinAge \/ age.value > MaxAge)
  IN  /\ convState = "AGE"
      /\ userData' = IF valid THEN Put(userData, "age", age.value) ELSE userData
      /\ convState' = IF valid THEN "GENDER" ELSE "AGE"
      /\ lastReply' = Reply("get_age", text, IF valid THEN "ok" ELSE "invalid")
      /\ UNCHANGED << profile, weightLogs, envVars, plannerVars, planVars, streakVars,
                      trackerVars >>

get_gender(gender) ==
  /\ convState = "GENDER"
  /\ userData' = Put(userData, "gender", gender)
  /\ convState' = "HEIGHT"
  /\ lastReply' = Reply("get_gender", WordText, "ok")
  /\ UNCHANGED << profile, weightLogs, envVars, plannerVars, planVars, streakVars,
                  trackerVars >>

get_height(text) ==
  LET height == ParseFloat(text)
      valid == ~height.raised /\ ~(Lt(height.value, MinHeight) \/ Gt(height.value, MaxHeight))
  IN  /\ convState = "HEIGHT"
      /\ userData' = IF valid THEN Put(userData, "height_cm", height.value) ELSE userData
      /\ convState' = IF valid THEN "WEIGHT" ELSE "HEIGHT"
      /\ lastReply' = Reply("get_height", text, IF valid THEN "ok" ELSE "invalid")
      /\ UNCHANGED << profile, weightLogs, envVars, plannerVars, planVars, streakVars,
                      trackerVars >>

get_weight(text) ==
  LET weight == ParseFloat(text)
      valid == ~weight.raised /\ ~(Lt(weight.value, MinWeight) \/ Gt(weight.value, MaxWeight))
  IN  /\ convState = "WEIGHT"
      /\ userData' = IF valid THEN Put(userData, "weight_kg", weight.value) ELSE userData
      /\ convState' = IF valid THEN "ACTIVITY" ELSE "WEIGHT"
      /\ lastReply' = Reply("get_weight", text, IF valid THEN "ok" ELSE "invalid")
      /\ UNCHANGED << profile, weightLogs, envVars, plannerVars, planVars, streakVars,
                      trackerVars >>

get_activity(activity) ==
  /\ convState = "ACTIVITY"
  /\ userData' = Put(userData, "activity_level", activity)
  /\ convState' = "GOAL"
  /\ lastReply' = Reply("get_activity", WordText, "ok")
  /\ UNCHANGED << profile, weightLogs, envVars, plannerVars, planVars, streakVars,
                  trackerVars >>

get_goal(goal) ==
  /\ convState = "GOAL"
  /\ userData' = Put(userData, "goal_type", goal)
  /\ convState' = "RESTRICTIONS"
  /\ lastReply' = Reply("get_goal", WordText, "ok")
  /\ UNCHANGED << profile, weightLogs, envVars, plannerVars, planVars, streakVars,
                  trackerVars >>

get_restrictions(parts) ==
  /\ convState = "RESTRICTIONS"
  /\ userData' = Put(userData, "restrictions",
                     IF parts = << "none" >> THEN <<>> ELSE NonEmptyParts(parts))
  /\ convState' = "CUISINE"
  /\ lastReply' = Reply("get_restrictions", WordText, "ok")
  /\ UNCHANGED << profile, weightLogs, envVars, plannerVars, planVars, streakVars,
                  trackerVars >>

\* The last answer: the targets are computed and put into user_data, the
\* profile is updated from all of user_data and the first weight is logged.
\* When a step raises, the conversation stays where it is.
get_cuisine(parts) ==
  LET cuisines == IF parts = << "any" >> THEN <<>>
                  ELSE LET kept == NonEmptyParts(parts)
                       IN  [i \in 1..Len(kept) |-> TitleTag(kept[i])]
      data1 == Put(userData, "cuisine_preferences", cuisines)
      targets == calculate_targets(data1.weight_kg, data1.height_cm, data1.age,
                                   data1.gender, data1.activity_level, data1.goal_type)
      data2 == IF targets.raised THEN data1
               ELSE Put(Put(Put(Put(data1, "target_calories", targets.value.calories),
                                "target_protein", targets.value.protein),
                            "target_carbs", targets.value.carbs),
                        "target_fat", targets.value.fat)
      updated == ~targets.raised /\ UserUpdate(data2)
      logged == updated /\ WeightLogCreate(data2.weight_kg)
  IN  /\ convState = "CUISINE"
      /\ Len(weightLogs) < MaxWeightLogs
      /\ userData' = data2
      /\ profile' = IF updated THEN Some(update_user(profile[1], data2)) ELSE profile
      /\ weightLogs' = IF logged
                       THEN Append(weightLogs, WeightLogRow(1, data2.weight_kg, today))
                       ELSE weightLogs
      /\ convState' = IF logged THEN "END" ELSE "CUISINE"
      /\ lastReply' = Reply("get_cuisine", WordText, IF logged THEN "ok" ELSE "raised")
      /\ UNCHANGED << envVars, plannerVars, planVars, streakVars, trackerVars >>

cancel ==
  /\ convState # "END"
  /\ convState' = "END"
  /\ lastReply' = Reply("cancel", WordText, "ok")
  /\ UNCHANGED << profile, userData, weightLogs, envVars, plannerVars, planVars,
                  streakVars, trackerVars >>

\* /weight with an argument.
weight_command(text) ==
  LET weight == ParseFloat(text)
      valid == ~weight.raised /\ ~(Lt(weight.value, MinWeight) \/ Gt(weight.value, MaxWeight))
      logged == valid /\ WeightLogCreate(weight.value)
      updated == logged /\ UserUpdate([weight_kg |-> weight.value])
  IN  /\ Len(weightLogs) < MaxWeightLogs
      /\ IF profile = NoneV
         THEN /\ lastReply' = Reply("weight_command", text, "not_found")
              /\ UNCHANGED << profile, weightLogs >>
         ELSE /\ weightLogs' = IF logged
                               THEN Append(weightLogs, WeightLogRow(1, weight.value, today))
                               ELSE weightLogs
              /\ profile' = IF updated
                            THEN Some(update_user(profile[1], [weight_kg |-> weight.value]))
                            ELSE profile
              /\ lastReply' = Reply("weight_command", text,
                                    IF ~valid THEN "invalid"
                                    ELSE IF updated THEN "ok" ELSE "raised")
      /\ UNCHANGED << convState, userData, envVars, plannerVars, planVars, streakVars,
                      trackerVars >>

\* POST /sync/weight.
sync_weight(weight_kg) ==
  LET logged == WeightLogCreate(weight_kg)
      updated == logged /\ UserUpdate([weight_kg |-> weight_kg])
  IN  /\ Len(weightLogs) < MaxWeightLogs
      /\ IF profile = NoneV
         THEN /\ lastReply' = Reply("sync_weight", weight_kg, "not_found")
              /\ UNCHANGED << profile, weightLogs >>
         ELSE /\ weightLogs' = IF logged
                               THEN Append(weightLogs, WeightLogRow(1, weight_kg, today))
                               ELSE weightLogs
              /\ profile' = IF updated
                            THEN Some(update_user(profile[1], [weight_kg |-> weight_kg]))
                            ELSE profile
              /\ lastReply' = Reply("sync_weight", weight_kg,
                                    IF updated THEN "ok" ELSE "raised")
      /\ UNCHANGED << convState, userData, envVars, plannerVars, planVars, streakVars,
                      trackerVars >>


\* Only the weight is asked for.
ProfileComplete_WeightOnly(user) == user.weight_kg # NoneV

\* user.weight_kg and user.height_cm and user.age: None and 0 are false, nan
\* is true.
ProfileComplete(user) ==
  /\ user.weight_kg # NoneV /\ (user.weight_kg[1].nan \/ user.weight_kg[1].v # 0)
  /\ user.height_cm # NoneV /\ (user.height_cm[1].nan \/ user.height_cm[1].v # 0)
  /\ user.age # NoneV /\ user.age[1] # 0

\* The goals_recalc callback of handle_callback.  calculate_targets raises on
\* an argument that is None, and UserUpdate on a target out of its range.
goals_recalc ==
  /\ convState = "END"
  /\ IF profile = NoneV
     THEN /\ lastReply' = Reply("goals_recalc", WordText, "ignored")
          /\ UNCHANGED profile
     ELSE LET user == profile[1]
              targets ==
                IF user.weight_kg = NoneV \/ user.height_cm = NoneV \/ user.age = NoneV
                THEN Raised
                ELSE calculate_targets(user.weight_kg[1], user.height_cm[1], user.age[1],
                                       OrElse(user.gender, "other"),
                                       OrElse(user.activity_level, "moderate"),
                                       OrElse(user.goal_type, "maintenance"))
              data == [target_calories |-> targets.value.calories,
                       target_protein |-> targets.value.protein,
                       target_carbs |-> targets.value.carbs,
                       target_fat |-> targets.value.fat]
              updated == ~targets.raised /\ UserUpdate(data)
          IN  IF ProfileComplete(user)
              THEN /\ profile' = IF updated THEN Some(update_user(user, data)) ELSE profile
                   /\ lastReply' = Reply("goals_recalc", WordText,
                                         IF updated THEN "recalculated" ELSE "raised")
              ELSE /\ lastReply' = Reply("goals_recalc", WordText, "missing")
                   /\ UNCHANGED profile
  /\ UNCHANGED << convState, userData, weightLogs, envVars, plannerVars, planVars,
                  streakVars, trackerVars >>
-----------------------------------------------------------------------------
(* DatabaseService: the food and water logs *)

\* The food_logs row create_food_log inserts; the store stamps logged_at.
FoodLogRow(user_id, log_data, logged_at) ==
  [user_id |-> user_id, logged_at |-> logged_at, calories |-> log_data.calories,
   protein |-> log_data.protein, carbs |-> log_data.carbs, fat |-> log_data.fat]

Column(rows, field) == [i \in 1..Len(rows) |-> rows[i][field]]

get_food_logs_for_date(user_id, log_date) ==
  SelectSeq(foodLogs, LAMBDA log : log.user_id = user_id /\ log.logged_at = log_date)

get_daily_totals(user_id, log_date) ==
  LET logs == get_food_logs_for_date(user_id, log_date)
  IN  [calories |-> SumSeq(Column(logs, "calories")),
       protein |-> SumSeq(Column(logs, "protein")),
       carbs |-> SumSeq(Column(logs, "carbs")),
       fat |-> SumSeq(Column(logs, "fat")),
       meals_logged |-> Len(logs)]

get_daily_water(user_id, log_date) ==
  SumSeq(Column(SelectSeq(waterLogs, LAMBDA log : log.user_id = user_id
                                                  /\ log.logged_at = log_date),
                "amount_ml"))

-----------------------------------------------------------------------------
(* GoalTracker *)

DefaultCalorieTarget == 2000
DefaultProteinTarget == 150
DefaultCarbsTarget == 250
DefaultFatTarget == 65
OnTrackPercent == 15
OnTrackMeals == 2
DaysInReport == 7
DaysBeforeEnd == 6
WeightHistoryDays == 7

\* The target taken as it is when it is set, 0 included.
CalorieTarget_KeepZero(user) ==
  IF user.target_calories = NoneV THEN DefaultCalorieTarget ELSE user.target_calories[1]

\* user.target_calories or 2000
CalorieTarget(user) == OrInt(user.target_calories, DefaultCalorieTarget)

\* The band of 15% widened to 20%.
CalDiffOnTrack_Wide(consumed, cal_target) ==
  cal_target > 0 => 100 * Abs(consumed - cal_target) <= 20 * cal_target

\* cal_diff <= 0.15, for cal_diff = abs(consumed - cal_target) / cal_target if
\* cal_target else 0.  The operands are ints, so the float quotient is on the
\* same side of 0.15 as the exact one; a negative cal_target makes it <= 0.
CalDiffOnTrack(consumed, cal_target) ==
  IF cal_target = 0 THEN TRUE
  ELSE IF cal_target > 0
       THEN 100 * Abs(consumed - cal_target) <= OnTrackPercent * cal_target
       ELSE TRUE

\* The DailyProgress of a day from its totals and its water.
DailyProgress(user, day, totals, water) ==
  LET cal_target == CalorieTarget(user)
  IN  [date |-> day,
       calories_consumed |-> totals.calories,
       calories_target |-> cal_target,
       protein_consumed |-> totals.protein,
       protein_target |-> OrInt(user.target_protein, DefaultProteinTarget),
       carbs_consumed |-> totals.carbs,
       carbs_target |-> OrInt(user.target_carbs, DefaultCarbsTarget),
       fat_consumed |-> totals.fat,
       fat_target |-> OrInt(user.target_fat, DefaultFatTarget),
       water_ml |-> water,
       meals_logged |-> totals.meals_logged,
       on_track |-> (CalDiffOnTrack(totals.calories, cal_target)
                     /\ totals.meals_logged >= OnTrackMeals)]

get_daily_progress(user, target_date) ==
  LET day == IF target_date = NoneV THEN today ELSE target_date[1]
  IN  DailyProgress(user, day, get_daily_totals(user.id, day), get_daily_water(user.id, day))

\* The days collected starting one day late.
ReportDays_Late(start_date) == [i \in 1..DaysInReport |-> start_date + i]

\* The days get_weekly_report collects: start_date + i for i in range(7).
ReportDays(start_date) == [i \in 1..DaysInReport |-> start_date + (i - 1)]

Reverse(seq) == [i \in 1..Len(seq) |-> seq[Len(seq) + 1 - i]]

\* get_weight_history(user_id, days): the weight logs of the user since
\* now - days, the newest first.  The table holds the logs in the order of
\* their timestamps; the time of day of now is not told apart from that of
\* the logs.
get_weight_history(user_id, days) ==
  Reverse(SelectSeq(weightLogs,
                    LAMBDA log : log.user_id = user_id /\ log.logged_at >= today - days))

\* The change with the operands the other way round.
WeightChange_OldestMinusNewest(weight_history) ==
  IF Len(weight_history) >= 2
  THEN Some(Float(weight_history[Len(weight_history)].weight_kg.v
                  - weight_history[1].weight_kg.v))
  ELSE NoneV

\* weight_change of get_weekly_report: None, or weight_history[0].weight_kg -
\* weight_history[-1].weight_kg.
WeightChange(weight_history) ==
  IF Len(weight_history) >= 2
  THEN Some(Float(weight_history[1].weight_kg.v
                  - weight_history[Len(weight_history)].weight_kg.v))
  ELSE NoneV

\* A quotient that is not rounded: avg = num / den.
Ratio(num, den) == [num |-> num, den |-> den]

MaxRecommendations == 5
MinLoggedDays == 5
LowWaterMl == 1500
ExcellentDays == 5
GoodDays == 3

\* The last entries of the list.
Limit_FromTheEnd(recommendations) ==
  SubSeq(recommendations, Len(recommendations) - Min(MaxRecommendations, Len(recommendations)) + 1,
         Len(recommendations))

\* recommendations[:5]
Limit(recommendations) ==
  SubSeq(recommendations, 1, Min(MaxRecommendations, Len(recommendations)))

\* The praise from 4 days on.
Praise_FromFour(on_track_days) ==
  IF on_track_days >= ExcellentDays - 1 THEN << "excellent_consistency" >>
  ELSE IF on_track_days >= GoodDays + 1 THEN << "good_progress" >>
  ELSE <<>>

\* The line inserted at index 0: if on_track_days >= 5 ... elif on_track_days >= 3.
Praise(on_track_days) ==
  IF on_track_days >= ExcellentDays THEN << "excellent_consistency" >>
  ELSE IF on_track_days >= GoodDays THEN << "good_progress" >>
  ELSE <<>>

\* The days with more than two meals logged.
LoggedDays_MoreThanTwo(daily_data) ==
  Cardinality({i \in 1..Len(daily_data) : daily_data[i].meals_logged > 2})

\* sum(1 for d in daily_data if d.meals_logged > 0)
LoggedDays(daily_data) ==
  Cardinality({i \in 1..Len(daily_data) : daily_data[i].meals_logged > 0})

\* _generate_recommendations.  A recommendation is told by its name; the
\* percentages and the products are compared as exact numbers.
_generate_recommendations(user, daily_data, avg_calories, avg_protein, weight_change) ==
  LET cal_target == OrInt(user.target_calories, DefaultCalorieTarget)
      protein_target == OrInt(user.target_protein, DefaultProteinTarget)
      \* cal_diff_pct = (avg_calories - cal_target) / cal_target * 100
      diff_num == (avg_calories.num - cal_target * avg_calories.den) * 100
      diff_den == cal_target * avg_calories.den
      \* avg_protein < protein_target * tenths / 10
      ProteinBelow(tenths) ==
        avg_protein.num * 10 < protein_target * tenths * avg_protein.den
      goal ==
        IF user.goal_type = Some("weight_loss")
        THEN IF diff_num > 10 * diff_den THEN << "calories_above_target" >>
             ELSE IF diff_num < (-20) * diff_den THEN << "eating_too_little" >>
             ELSE IF weight_change # NoneV /\ weight_change[1].v # 0
                     /\ weight_change[1].v < -50
             THEN << "healthy_weight_loss" >>
             ELSE <<>>
        ELSE IF user.goal_type = Some("muscle_gain")
        THEN (IF diff_num < (-5) * diff_den THEN << "eat_more" >> ELSE <<>>)
             \o (IF ProteinBelow(9) THEN << "protein_for_muscle" >> ELSE <<>>)
        ELSE <<>>
      protein == IF ProteinBelow(8) THEN << "protein_low" >> ELSE <<>>
      logged_days == LoggedDays(daily_data)
      consistency == IF logged_days < MinLoggedDays THEN << "log_consistently" >> ELSE <<>>
      water_sum == SumSeq(Column(daily_data, "water_ml"))
      water == IF water_sum < LowWaterMl * Len(daily_data) THEN << "water_low" >> ELSE <<>>
      on_track_days == Cardinality({i \in 1..Len(daily_data) : daily_data[i].on_track})
      praise == Praise(on_track_days)
  IN  Limit(praise \o goal \o protein \o consistency \o water)

\* get_weekly_report.  The dates of the report are day numbers.
get_weekly_report(user, end_date) ==
  LET end == IF end_date = NoneV THEN today ELSE end_date[1]
      start_date == end - DaysBeforeEnd
      days == ReportDays(start_date)
      daily_data == [i \in 1..Len(days) |-> get_daily_progress(user, Some(days[i]))]
      total_days == Len(daily_data)
      avg_calories == Ratio(SumSeq(Column(daily_data, "calories_consumed")), total_days)
      avg_protein == Ratio(SumSeq(Column(daily_data, "protein_consumed")), total_days)
      weight_change == WeightChange(get_weight_history(user.id, WeightHistoryDays))
      streak == get_streak(<< user.id, "logging" >>)
  IN  [start_date |-> start_date,
       end_date |-> end,
       avg_calories |-> Round(avg_calories.num, avg_calories.den),
       avg_protein |-> Round(avg_protein.num, avg_protein.den),
       avg_carbs |-> Round(SumSeq(Column(daily_data, "carbs_consumed")), total_days),
       avg_fat |-> Round(SumSeq(Column(daily_data, "fat_consumed")), total_days),
       weight_change |-> weight_change,
       days_on_track |-> Cardinality({i \in 1..Len(daily_data) : daily_data[i].on_track}),
       total_days |-> total_days,
       logging_streak |-> IF streak = NoneV THEN 0 ELSE streak[1].current_streak,
       recommendations |-> _generate_recommendations(user, daily_data, avg_calories,
                                                     avg_protein, weight_change)]

-----------------------------------------------------------------------------
(* The inputs of the goal tracker *)

MaxDay == 3
MaxFoodLogs == 4
FirstDay == 1

\* What a user logs: the estimates of a burger and of a sandwich.
Burger == [calories |-> 500, protein |-> 25, carbs |-> 40, fat |-> 25]
Sandwich == [calories |-> 350, protein |-> 15, carbs |-> 40, fat |-> 15]
FoodMenu == { Burger, Sandwich }

\* The food logs the store holds from the week before the first day: none, one
\* of seven days before, two of six days before, two of another user.
StoredFoodLogs ==
  { <<>>,
    << FoodLogRow(1, Burger, FirstDay - 7) >>,
    << FoodLogRow(1, Burger, FirstDay - 6), FoodLogRow(1, Sandwich, FirstDay - 6) >>,
    << FoodLogRow(2, Burger, FirstDay - 6), FoodLogRow(2, Burger, FirstDay - 6) >> }

TrackTargets == { NoneV, Some(0), Some(1000) }
TrackUsers ==
  { [NewUser(1) EXCEPT !.target_calories = t] : t \in TrackTargets }
  \cup { [NewUser(2) EXCEPT !.target_calories = Some(1000)] }

\* The dates a call is made for: today by default, or a day of the last week.
TrackDates == { NoneV } \cup { Some(d) : d \in (today - DaysInReport)..(today - 1) }
ReportDates == { NoneV, Some(today - 1) }

NoTrackCall ==
  [method |-> "none", user |-> NewUser(1), date |-> NoneV,
   progress |-> NoneV, report |-> NoneV]

-----------------------------------------------------------------------------
(* The logging and the GoalTracker calls as steps.  A call leaves the store  *)
(* as it is, so one call in each state of the store shows all of them: its  *)
(* result is observed until the store or the date changes.                  *)

create_food_log(user_id, log_data) ==
  /\ Cardinality({i \in 1..Len(foodLogs) : foodLogs[i].logged_at >= FirstDay}) < MaxFoodLogs
  /\ foodLogs' = Append(foodLogs, FoodLogRow(user_id, log_data, today))
  /\ trackCall' = NoTrackCall
  /\ UNCHANGED << waterLogs, envVars, plannerVars, planVars, streakVars, profileVars >>

\* The date changes while no call is under way.
NextDay ==
  /\ today < MaxDay
  /\ \A thread \in Threads : streakCalls[thread].pc # "read"
  /\ today' = today + 1
  /\ trackCall' = NoTrackCall
  /\ streakWrites' = NoStreakWrites
  /\ streakCalls' = [thread \in Threads |-> NoStreakCall]
  /\ UNCHANGED << aiProvider, streaks, foodLogs, waterLogs, plannerVars, planVars,
                  profileVars >>

CallDailyProgress ==
  \E user \in TrackUsers, target_date \in TrackDates :
  /\ trackCall = NoTrackCall
  /\ trackCall' = [method |-> "get_daily_progress", user |-> user,
                   date |-> target_date,
                   progress |-> Some(get_daily_progress(user, target_date)),
                   report |-> NoneV]
  /\ UNCHANGED << foodLogs, waterLogs, envVars, plannerVars, planVars, streakVars,
                  profileVars >>

CallWeeklyReport ==
  \E user \in TrackUsers, end_date \in ReportDates :
  /\ trackCall = NoTrackCall
  /\ trackCall' = [method |-> "get_weekly_report", user |-> user, date |-> end_date,
                   progress |-> NoneV,
                   report |-> Some(get_weekly_report(user, end_date))]
  /\ UNCHANGED << foodLogs, waterLogs, envVars, plannerVars, planVars, streakVars,
                  profileVars >>


-----------------------------------------------------------------------------
(* The inputs of the recommendations and of the weight change *)

\* The totals and the water of a day: nothing logged; two meals near a target
\* of 1000 with little protein and no water; three meals at the target with
\* protein and water; one large meal.
DayKinds ==
  << [totals |-> [calories |-> 0, protein |-> 0, carbs |-> 0, fat |-> 0, meals_logged |-> 0],
      water |-> 0],
     [totals |-> [calories |-> 900, protein |-> 20, carbs |-> 80, fat |-> 30,
                  meals_logged |-> 2],
      water |-> 0],
     [totals |-> [calories |-> 1000, protein |-> 160, carbs |-> 60, fat |-> 12,
                  meals_logged |-> 3],
      water |-> 2000],
     [totals |-> [calories |-> 1500, protein |-> 140, carbs |-> 100, fat |-> 60,
                  meals_logged |-> 1],
      water |-> 2500] >>

\* The weeks: how many days of each kind, the kinds in their order.
WeekShapes ==
  { w \in [1..DaysInReport -> 1..Len(DayKinds)] :
      \A i \in 1..(DaysInReport - 1) : w[i] <= w[i + 1] }

RecommendGoals == { NoneV, Some("weight_loss"), Some("muscle_gain") }
RecommendUsers ==
  { [NewUser(1) EXCEPT !.target_calories = Some(1000), !.goal_type = g] :
      g \in RecommendGoals }
WeightChanges == { NoneV, Some(Float(0)), Some(Float(-50)), Some(Float(-100)), Some(Float(50)) }

RecommendationCall(user, week, weight_change) ==
  [method |-> "_generate_recommendations", user |-> user, date |-> NoneV,
   progress |-> NoneV, report |-> NoneV,
   daily_data |-> [i \in 1..DaysInReport |->
                     DailyProgress(user, FirstDay - DaysInReport + i,
                                   DayKinds[week[i]].totals, DayKinds[week[i]].water)],
   weight_change |-> weight_change, done |-> FALSE, recommendations |-> <<>>]

RecommendationCalls ==
  { RecommendationCall(user, week, weight_change) :
      user \in RecommendUsers, week \in WeekShapes, weight_change \in WeightChanges }

\* A call of _generate_recommendations, with the averages get_weekly_report
\* passes for the days.
CallRecommendations ==
  /\ trackCall.method = "_generate_recommendations" /\ ~trackCall.done
  /\ trackCall' =
       [trackCall EXCEPT
          !.done = TRUE,
          !.recommendations =
             _generate_recommendations(
               trackCall.user, trackCall.daily_data,
               Ratio(SumSeq(Column(trackCall.daily_data, "calories_consumed")),
                     Len(trackCall.daily_data)),
               Ratio(SumSeq(Column(trackCall.daily_data, "protein_consumed")),
                     Len(trackCall.daily_data)),
               trackCall.weight_change)]
  /\ UNCHANGED << foodLogs, waterLogs, envVars, plannerVars, planVars, streakVars,
                  profileVars >>

MaxReportLogs == 4

\* The weight logs the store holds from the days before the first day.
StoredWeightLogs ==
  { <<>>,
    << WeightLogRow(1, Float(8000), FirstDay - 8) >>,
    << WeightLogRow(1, Float(8000), FirstDay - 7), WeightLogRow(1, Float(7900), FirstDay - 1) >>,
    << WeightLogRow(1, Float(8000), FirstDay - 3), WeightLogRow(1, Float(8100), FirstDay - 2),
       WeightLogRow(1, Float(7850), FirstDay - 1) >>,
    << WeightLogRow(2, Float(6000), FirstDay - 2), WeightLogRow(1, Float(8000), FirstDay - 1) >> }
LoggedWeights == { Float(7700), Float(8000) }

\* create_weight_log: the row is appended with the timestamp of now.
create_weight_log(user_id, weight_kg) ==
  /\ Len(weightLogs) < MaxReportLogs
  /\ weightLogs' = Append(weightLogs, WeightLogRow(user_id, weight_kg, today))
  /\ trackCall' = NoTrackCall
  /\ UNCHANGED << profile, convState, userData, lastReply, foodLogs, waterLogs, envVars,
                  plannerVars, planVars, streakVars >>
-----------------------------------------------------------------------------
(* The users of the plan store and of the jobs *)

MaxUsers == 2
PlanUsers == 1..MaxUsers

\* The profiles: the defaults of a new user; two meals a day; four meals a day.
UserPresets ==
  << NewUser(0),
     [NewUser(0) EXCEPT !.meal_frequency = 2, !.goal_type = Some("weight_loss"),
                        !.restrictions = << "vegan" >>],
     [NewUser(0) EXCEPT !.meal_frequency = 4, !.goal_type = Some("maintenance")] >>

\* The users row of a user.
get_user_by_id(user_id) ==
  [UserPresets[((user_id - 1) % Len(UserPresets)) + 1] EXCEPT !.id = user_id]

\* The user_settings row of a user: the defaults, and the water reminders
\* enabled for every other user.
get_user_settings(user_id) ==
  [notifications_enabled |-> TRUE, enable_water_reminders |-> (user_id % 2 = 1)]

\* The ids of the users whose settings have notifications_enabled, by id.
get_all_users_with_notifications ==
  SelectSeq([i \in 1..MaxUsers |-> i],
            LAMBDA user_id : get_user_settings(user_id).notifications_enabled)

-----------------------------------------------------------------------------
(* DatabaseService: the meal plans *)

\* sum(plan_data.get(m, {}).get(field, 0) for m in ["breakfast", "lunch", "dinner"])
SumOfMeals(plan_data, field) ==
  SumSeq([k \in 1..Len(MealSlots) |->
            Get(Get(plan_data, MealSlots[k], EmptyDict), field, 0)])

\* sum(s.get(field, 0) for s in plan_data.get("snacks", []))
SumOfSnacks(plan_data, field) ==
  LET snacks == Get(plan_data, "snacks", <<>>)
  IN  SumSeq([i \in 1..Len(snacks) |-> Get(snacks[i], field, 0)])

\* The totals of plan_command.
PlanCommandTotals(plan_data) ==
  [total_calories |-> SumOfMeals(plan_data, "calories") + SumOfSnacks(plan_data, "calories"),
   total_protein |-> SumOfMeals(plan_data, "protein") + SumOfSnacks(plan_data, "protein"),
   total_carbs |-> SumOfMeals(plan_data, "carbs") + SumOfSnacks(plan_data, "carbs"),
   total_fat |-> SumOfMeals(plan_data, "fat") + SumOfSnacks(plan_data, "fat")]

\* The totals of _send_morning_plans.
MorningTotals(plan_data) ==
  [total_calories |-> SumOfMeals(plan_data, "calories") + SumOfSnacks(plan_data, "calories"),
   total_protein |-> SumOfMeals(plan_data, "protein"),
   total_carbs |-> SumOfMeals(plan_data, "carbs"),
   total_fat |-> SumOfMeals(plan_data, "fat")]

\* The meal_plans row of a MealPlanCreate for the user and today.
MealPlanCreate(plan_data, totals) ==
  [meals |-> plan_data,
   shopping_list |-> Get(plan_data, "shopping_list", <<>>),
   total_calories |-> totals.total_calories, total_protein |-> totals.total_protein,
   total_carbs |-> totals.total_carbs, total_fat |-> totals.total_fat]

\* MealPlan(**row): meals must hold a breakfast, a lunch and a dinner, each a
\* Meal, and its snacks must be Meals; other keys of meals are dropped.
MealPlan(row) ==
  LET meals == row.meals
      snacks == Get(meals, "snacks", <<>>)
      valid == /\ \A k \in 1..Len(MealSlots) :
                    /\ MealSlots[k] \in DOMAIN meals
                    /\ ~MealFromDict(meals[MealSlots[k]]).raised
               /\ \A i \in 1..Len(snacks) : ~MealFromDict(snacks[i]).raised
  IN  IF ~valid THEN Raised
      ELSE Ok([meals |-> [breakfast |-> MealFromDict(meals.breakfast).value,
                          lunch |-> MealFromDict(meals.lunch).value,
                          dinner |-> MealFromDict(meals.dinner).value,
                          snacks |-> [i \in 1..Len(snacks) |->
                                        MealFromDict(snacks[i]).value]],
               shopping_list |-> row.shopping_list,
               total_calories |-> row.total_calories,
               total_protein |-> row.total_protein,
               total_carbs |-> row.total_carbs, total_fat |-> row.total_fat])

\* get_meal_plan(user_id, today): None, the plan, or the ValidationError.
get_meal_plan(user_id) ==
  IF plans[user_id] = NoneV THEN Ok(NoneV)
  ELSE LET plan == MealPlan(plans[user_id][1])
       IN  IF plan.raised THEN Raised ELSE Ok(Some(plan.value))

\* get_recent_meal_plans(user_id, days=7): the rows of the last days, the
\* newest first, each read as a MealPlan.
get_recent_meal_plans(user_id) ==
  LET rows == plans[user_id] \o recentPlans[user_id]
  IN  IF \E i \in 1..Len(rows) : MealPlan(rows[i]).raised THEN Raised
      ELSE Ok([i \in 1..Len(rows) |-> MealPlan(rows[i]).value])

\* The names plan_command collects from the recent plans.
RecentMealsOfChat(recent_plans) ==
  IF recent_plans = <<>> THEN <<>>
  ELSE LET names(p) == << p.meals.breakfast.name, p.meals.lunch.name, p.meals.dinner.name >>
           RECURSIVE Flat(_)
           Flat(i) == IF i > Len(recent_plans) THEN <<>>
                      ELSE names(recent_plans[i]) \o Flat(i + 1)
       IN  Flat(1)

\* The names _send_morning_plans collects: p.meals is no dict, so none.
RecentMealsOfJob(recent_plans) == <<>>

-----------------------------------------------------------------------------
(* What a step sends and how it ends.  error is "none", "store" (the store  *)
(* failed), "send" (the message could not be sent) or "code" (the handler   *)
(* raised on its own).                                                       *)

Message(kind, body) == [kind |-> kind, body |-> body]
Step(by, to, existed, sent, error) ==
  [by |-> by, to |-> to, existed |-> existed, sent |-> sent, error |-> error]
NoStep == Step("none", 0, FALSE, NoneV, "none")

\* Whether the store or the messenger fails in a step, and where.
Failures == { "none", "store", "send" }

\* From the plan data on: the row is upserted and read back as a MealPlan, at
\* create_meal_plan and again at get_meal_plan.  The result tells the rows of
\* the store, the plan read or None, and the error.
StorePlan(user_id, plan_data, totals, fail) ==
  IF ~IsDict(plan_data) THEN [plans |-> plans, plan |-> NoneV, error |-> "code"]
  ELSE IF fail = "store" THEN [plans |-> plans, plan |-> NoneV, error |-> "store"]
  ELSE LET row == MealPlanCreate(plan_data, totals)
           stored == [plans EXCEPT ![user_id] = Some(row)]
           plan == MealPlan(row)
       IN  IF plan.raised THEN [plans |-> stored, plan |-> NoneV, error |-> "code"]
           ELSE [plans |-> stored, plan |-> Some(plan.value), error |-> "none"]

-----------------------------------------------------------------------------
(* TelegramBot.plan_command.  The bot handles one update at a time; the      *)
(* handler gives way to the jobs where it awaits: at its replies and, with   *)
(* an AI provider, at the generation.                                        *)

NoChat == [pc |-> "idle", user |-> 0, recent_meals |-> <<>>]

\* The inputs of a generation: the reply of the AI service and the state of
\* the random generator.
PlanRngStates == { 0, MaxRng }
GenerationInputs ==
  { << reply, r >> \in PlanReplies \X PlanRngStates :
      /\ reply \in RepliesFor(aiProvider, PlanReplies)
      /\ (IsAIProvider(aiProvider) /\ reply.kind = "json") => r = 0 }

\* The end of plan_command from the plan data on: totals, create_meal_plan,
\* get_meal_plan and the reply.
PlanCommandEnd(user_id, plan_data, fail) ==
  LET stored == StorePlan(user_id, plan_data, PlanCommandTotals(plan_data), fail)
  IN  /\ plans' = stored.plans
      /\ chat' = NoChat
      /\ outbox' =
           IF stored.error # "none"
           THEN Step("plan_command", user_id, FALSE, NoneV, stored.error)
           ELSE IF fail = "send"
           THEN Step("plan_command", user_id, FALSE, NoneV, "send")
           ELSE Step("plan_command", user_id, FALSE,
                     Some(Message("plan", stored.plan[1])), "none")

\* /plan, up to the reply: the plan of today when there is one, or the notice
\* that one is being generated.
plan_command(user_id, fail) ==
  LET plan == get_meal_plan(user_id)
      existed == plans[user_id] # NoneV
  IN  /\ chat.pc = "idle"
      /\ IF fail = "store" \/ plan.raised
         THEN /\ outbox' = Step("plan_command", user_id, existed, NoneV,
                                IF fail = "store" THEN "store" ELSE "code")
              /\ chat' = chat
         ELSE IF fail = "send"
         THEN /\ outbox' = Step("plan_command", user_id, existed, NoneV, "send")
              /\ chat' = chat
         ELSE IF plan.value # NoneV
         THEN /\ outbox' = Step("plan_command", user_id, existed,
                                Some(Message("plan", plan.value[1])), "none")
              /\ chat' = chat
         ELSE /\ outbox' = Step("plan_command", user_id, existed,
                                Some(Message("generating", EmptyDict)), "none")
              /\ chat' = [pc |-> "recent", user |-> user_id, recent_meals |-> <<>>]
      /\ UNCHANGED << plans, recentPlans, job, jobLog, envVars, plannerVars, streakVars,
                      profileVars, trackerVars >>

\* /plan, after the notice: the recent plans are read; the rule-based provider
\* generates at once, an AI provider is awaited.
plan_command_recent(fail, reply, r) ==
  LET user_id == chat.user
      recent_plans == get_recent_meal_plans(user_id)
      recent_meals == RecentMealsOfChat(recent_plans.value)
  IN  /\ chat.pc = "recent"
      /\ IF fail = "store" \/ recent_plans.raised
         THEN /\ outbox' = Step("plan_command", user_id, FALSE, NoneV,
                                IF fail = "store" THEN "store" ELSE "code")
              /\ chat' = NoChat
              /\ plans' = plans
         ELSE IF IsAIProvider(aiProvider)
         THEN /\ outbox' = Step("plan_command", user_id, FALSE, NoneV, "none")
              /\ chat' = [chat EXCEPT !.pc = "generating", !.recent_meals = recent_meals]
              /\ plans' = plans
         ELSE PlanCommandEnd(user_id,
                             generate_meal_plan(aiProvider, get_user_by_id(user_id),
                                                recent_meals, reply, r).value,
                             fail)
      /\ UNCHANGED << recentPlans, job, jobLog, envVars, plannerVars, streakVars,
                      profileVars, trackerVars >>

\* /plan, when the AI provider has answered or failed.
plan_command_generated(fail, reply, r) ==
  /\ chat.pc = "generating"
  /\ PlanCommandEnd(chat.user,
                    generate_meal_plan(aiProvider, get_user_by_id(chat.user),
                                       chat.recent_meals, reply, r).value,
                    fail)
  /\ UNCHANGED << recentPlans, job, jobLog, envVars, plannerVars, streakVars,
                  profileVars, trackerVars >>

-----------------------------------------------------------------------------
(* NotificationScheduler: the jobs.  A job fetches the users and goes        *)
(* through them; what happens to a user is caught and logged, and send       *)
(* failures only make send_message return False.                             *)

JobKinds == { "morning_plans", "evening_summaries", "weekly_reports",
              "breakfast_reminder", "lunch_reminder", "dinner_reminder",
              "water_reminders" }
ReminderKinds == { "breakfast_reminder", "lunch_reminder", "dinner_reminder" }
WaterTarget == 2500
GlassSize == 250

NoJob == [kind |-> "idle", users |-> <<>>, idx |-> 0, pc |-> "next"]
JobUser == job.users[job.idx]
JobRunning == job.kind # "idle"
JobOver == job.kind = "idle"
InLoop == JobRunning /\ job.idx <= Len(job.users)

\* The loop without its try: an exception ends the job.
AfterUser_NoTry(error) ==
  IF error \in { "store", "code" }
  THEN [job EXCEPT !.idx = Len(job.users) + 1, !.pc = "next"]
  ELSE [job EXCEPT !.idx = job.idx + 1, !.pc = "next"]

\* The job after a user, whatever happened to that user.
AfterUser(error) == [job EXCEPT !.idx = job.idx + 1, !.pc = "next"]

\* The end of a user's turn: the message and the outcome, logged.
EndTurn(by, sent, error) ==
  /\ outbox' = Step(by, JobUser, FALSE, sent, error)
  /\ jobLog' = Append(jobLog, [user |-> JobUser, error |-> error, sent |-> sent # NoneV])
  /\ job' = AfterUser(error)

\* A job starts: it fetches the users with notifications.
StartJob(kind, fail) ==
  /\ job.kind = "idle"
  /\ IF fail = "store"
     THEN /\ outbox' = Step(kind, 0, FALSE, NoneV, "store")
          /\ UNCHANGED << job, jobLog >>
     ELSE /\ outbox' = Step(kind, 0, FALSE, NoneV, "none")
          /\ job' = [kind |-> kind, users |-> get_all_users_with_notifications,
                     idx |-> 1, pc |-> "next"]
          /\ jobLog' = <<>>
  /\ UNCHANGED << plans, recentPlans, chat, envVars, plannerVars, streakVars,
                  profileVars, trackerVars >>

\* A job has gone through its users.
FinishJob ==
  /\ job.kind # "idle" /\ job.idx > Len(job.users)
  /\ job' = [job EXCEPT !.kind = "idle"]
  /\ outbox' = Step(job.kind, 0, FALSE, NoneV, "none")
  /\ UNCHANGED << plans, recentPlans, chat, jobLog, envVars, plannerVars, streakVars,
                  profileVars, trackerVars >>

\* How a turn ends: the rows of the plan store, whether a plan of today was
\* found, the message and the error.
Turn(rows, existed, sent, error) ==
  [plans |-> rows, existed |-> existed, sent |-> sent, error |-> error]

\* The end of a morning turn from the plan data on: totals, create_meal_plan,
\* get_meal_plan and the message.
MorningEnd(plan_data, fail) ==
  LET stored == StorePlan(JobUser, plan_data, MorningTotals(plan_data), fail)
  IN  IF stored.error # "none" THEN Turn(stored.plans, FALSE, NoneV, stored.error)
      ELSE IF fail = "send" THEN Turn(stored.plans, FALSE, NoneV, "send")
      ELSE Turn(stored.plans, FALSE, Some(Message("morning", stored.plan[1])), "none")

\* A morning turn up to the generation: the plan of today is sent when there
\* is one; else the recent plans are read and the rule-based provider
\* generates at once.  An AI provider is awaited ("await").
MorningTurn(fail, reply, r) ==
  LET plan == get_meal_plan(JobUser)
      recent_plans == get_recent_meal_plans(JobUser)
      existed == plans[JobUser] # NoneV
  IN  IF fail = "store" THEN Turn(plans, existed, NoneV, "store")
      ELSE IF plan.raised \/ (plan.value = NoneV /\ recent_plans.raised)
      THEN Turn(plans, existed, NoneV, "code")
      ELSE IF plan.value # NoneV
      THEN IF fail = "send" THEN Turn(plans, existed, NoneV, "send")
           ELSE Turn(plans, existed, Some(Message("morning", plan.value[1])), "none")
      ELSE IF IsAIProvider(aiProvider) THEN Turn(plans, existed, NoneV, "await")
      ELSE MorningEnd(generate_meal_plan(aiProvider, get_user_by_id(JobUser),
                                         RecentMealsOfJob(recent_plans.value),
                                         reply, r).value,
                      fail)

\* _send_morning_plans, a user's turn.
morning_turn(fail, reply, r) ==
  /\ InLoop /\ job.kind = "morning_plans" /\ job.pc = "next"
  /\ \E turn \in { MorningTurn(fail, reply, r) } :
       /\ plans' = turn.plans
       /\ IF turn.error = "await"
          THEN /\ job' = [job EXCEPT !.pc = "generating"]
               /\ outbox' = Step("morning_plans", JobUser, turn.existed, NoneV, "none")
               /\ jobLog' = jobLog
          ELSE /\ job' = AfterUser(turn.error)
               /\ outbox' = Step("morning_plans", JobUser, turn.existed, turn.sent,
                                 turn.error)
               /\ jobLog' = Append(jobLog, [user |-> JobUser, error |-> turn.error,
                                            sent |-> turn.sent # NoneV])
  /\ UNCHANGED << recentPlans, chat, envVars, plannerVars, streakVars, profileVars,
                  trackerVars >>

\* _send_morning_plans, when the AI provider has answered or failed.
morning_generated(fail, reply, r) ==
  /\ InLoop /\ job.kind = "morning_plans" /\ job.pc = "generating"
  /\ \E turn \in { MorningEnd(generate_meal_plan(aiProvider, get_user_by_id(JobUser),
                                                <<>>, reply, r).value,
                             fail) } :
       /\ plans' = turn.plans
       /\ EndTurn("morning_plans", turn.sent, turn.error)
  /\ UNCHANGED << recentPlans, chat, envVars, plannerVars, streakVars, profileVars,
                  trackerVars >>

\* _send_evening_summaries, a user's turn.
evening_turn(fail) ==
  /\ InLoop /\ job.kind = "evening_summaries"
  /\ IF fail # "none" THEN EndTurn("evening_summaries", NoneV, fail)
     ELSE EndTurn("evening_summaries",
                  Some(Message("evening",
                               get_daily_progress(get_user_by_id(JobUser), Some(today)))),
                  "none")
  /\ UNCHANGED << plans, recentPlans, chat, envVars, plannerVars, streakVars,
                  profileVars, trackerVars >>

\* _send_weekly_reports, a user's turn.
weekly_turn(fail) ==
  /\ InLoop /\ job.kind = "weekly_reports"
  /\ IF fail # "none" THEN EndTurn("weekly_reports", NoneV, fail)
     ELSE EndTurn("weekly_reports",
                  Some(Message("weekly", get_weekly_report(get_user_by_id(JobUser), NoneV))),
                  "none")
  /\ UNCHANGED << plans, recentPlans, chat, envVars, plannerVars, streakVars,
                  profileVars, trackerVars >>

\* _send_meal_reminders, a user's turn: plan.meals is no dict, so the meal of
\* the reminder is never found and nothing is sent.
reminder_turn(fail) ==
  LET plan == get_meal_plan(JobUser)
  IN  /\ InLoop /\ job.kind \in ReminderKinds
      /\ IF fail = "store" THEN EndTurn(job.kind, NoneV, "store")
         ELSE IF plan.raised THEN EndTurn(job.kind, NoneV, "code")
         ELSE EndTurn(job.kind, NoneV, "none")
      /\ UNCHANGED << plans, recentPlans, chat, envVars, plannerVars, streakVars,
                      profileVars, trackerVars >>

\* _send_water_reminders, a user's turn.
water_turn(fail) ==
  LET settings == get_user_settings(JobUser)
      daily_water == get_daily_water(JobUser, today)
  IN  /\ InLoop /\ job.kind = "water_reminders"
      /\ IF fail = "store" THEN EndTurn("water_reminders", NoneV, "store")
         ELSE IF settings.enable_water_reminders /\ daily_water < WaterTarget
         THEN IF fail = "send" THEN EndTurn("water_reminders", NoneV, "send")
              ELSE EndTurn("water_reminders",
                           Some(Message("water",
                                        [daily_water |-> daily_water,
                                         glasses |-> (WaterTarget - daily_water)
                                                       \div GlassSize])),
                           "none")
         ELSE EndTurn("water_reminders", NoneV, "none")
      /\ UNCHANGED << plans, recentPlans, chat, envVars, plannerVars, streakVars,
                      profileVars, trackerVars >>

-----------------------------------------------------------------------------
(* The commands of the bot and the requests of the sync API that log food   *)
(* and water, each handled as a whole, one at a time.                       *)

WaterLogRow(user_id, amount_ml, logged_at) ==
  [user_id |-> user_id, logged_at |-> logged_at, amount_ml |-> amount_ml]

MaxWaterLogs == 2
MaxSyncFoodLogs == 2

\* update_streak, its read and its write with no other call in between.
update_streak(key) ==
  LET seen == get_streak(key)
      change == IF seen = NoneV THEN Some(NewStreak(today))
                ELSE StreakUpdate(seen[1], today)
      row == IF change = NoneV THEN streaks[key] ELSE change
  IN  /\ streaks' = [streaks EXCEPT ![key] = row]
      /\ streakWrites' = [streakWrites EXCEPT ![key] =
                            IF row # streaks[key] THEN @ + 1 ELSE @]
      /\ UNCHANGED streakCalls

\* context.args of /water: none, a number, a word.
NoArgs == [kind |-> "none", v |-> 0]
WaterTexts == { NoArgs, Numeral(50000), WordText }
SyncAmounts == { 250 }

\* /water
water_command(text) ==
  LET parsed == IF text = NoArgs THEN Raised ELSE ParseInt(text)
      amount == IF parsed.raised THEN GlassSize ELSE parsed.value
  IN  /\ Len(waterLogs) < MaxWaterLogs
      /\ IF profile = NoneV
         THEN /\ lastReply' = Reply("water_command", text, "ask_setup")
              /\ UNCHANGED waterLogs
         ELSE /\ waterLogs' = Append(waterLogs, WaterLogRow(1, amount, today))
              /\ lastReply' = Reply("water_command", Numeral(amount * 100), "ok")
      /\ UNCHANGED << profile, convState, userData, weightLogs, foodLogs, trackCall,
                      streakVars, envVars, plannerVars, planVars >>

\* POST /sync/water
sync_water(amount_ml) ==
  /\ Len(waterLogs) < MaxWaterLogs
  /\ IF profile = NoneV
     THEN /\ lastReply' = Reply("sync_water", Numeral(amount_ml * 100), "not_found")
          /\ UNCHANGED << waterLogs, streakVars >>
     ELSE /\ waterLogs' = Append(waterLogs, WaterLogRow(1, amount_ml, today))
          /\ update_streak(<< 1, "water" >>)
          /\ lastReply' = Reply("sync_water", Numeral(amount_ml * 100), "ok")
  /\ UNCHANGED << profile, convState, userData, weightLogs, foodLogs, trackCall,
                  envVars, plannerVars, planVars >>

\* /log: the nutrition is what parse_food_log estimates.
log_command(food_description) ==
  LET nutrition == parse_food_log(aiProvider, food_description, ErrorReply).value
      log_data == [calories |-> Get(nutrition, "calories", 0),
                   protein |-> Get(nutrition, "protein", 0),
                   carbs |-> Get(nutrition, "carbs", 0),
                   fat |-> Get(nutrition, "fat", 0)]
  IN  /\ Len(foodLogs) < MaxSyncFoodLogs
      /\ IF profile = NoneV
         THEN /\ lastReply' = Reply("log_command", WordText, "ask_setup")
              /\ UNCHANGED << foodLogs, streakVars >>
         ELSE IF food_description = <<>>
         THEN /\ lastReply' = Reply("log_command", WordText, "usage")
              /\ UNCHANGED << foodLogs, streakVars >>
         ELSE /\ foodLogs' = Append(foodLogs, FoodLogRow(1, log_data, today))
              /\ update_streak(<< 1, "logging" >>)
              /\ lastReply' = Reply("log_command", Numeral(log_data.calories * 100), "ok")
      /\ UNCHANGED << profile, convState, userData, weightLogs, waterLogs, trackCall,
                      envVars, plannerVars, planVars >>

\* POST /sync/food
sync_food(request) ==
  /\ Len(foodLogs) < MaxSyncFoodLogs
  /\ IF profile = NoneV
     THEN /\ lastReply' = Reply("sync_food", Numeral(request.calories * 100), "not_found")
          /\ UNCHANGED << foodLogs, streakVars >>
     ELSE /\ foodLogs' = Append(foodLogs, FoodLogRow(1, request, today))
          /\ update_streak(<< 1, "logging" >>)
          /\ lastReply' = Reply("sync_food", Numeral(request.calories * 100), "ok")
  /\ UNCHANGED << profile, convState, userData, weightLogs, waterLogs, trackCall,
                  envVars, plannerVars, planVars >>

-----------------------------------------------------------------------------
(* Calls of the functions of the planner and of the calculator, each drawn   *)
(* with its arguments and made once.                                         *)

\* Meals for _filter_by_restrictions: with chicken; with egg and toast; with
\* paneer and wrap; with none of the words; with beef and steak.
FilterMenu ==
  << [name |-> <<"G","r","i","l","l","e","d"," ","C","h","i","c","k","e","n"," ","S","a","l","a","d">>,
      calories |-> 400, protein |-> 35, carbs |-> 15, fat |-> 20],
     [name |-> <<"E","g","g"," ","T","o","a","s","t">>,
      calories |-> 300, protein |-> 15, carbs |-> 30, fat |-> 12],
     [name |-> <<"P","a","n","e","e","r"," ","W","r","a","p">>,
      calories |-> 450, protein |-> 20, carbs |-> 45, fat |-> 20],
     [name |-> <<"F","r","u","i","t"," ","B","o","w","l">>,
      calories |-> 200, protein |-> 3, carbs |-> 45, fat |-> 1],
     [name |-> <<"B","e","e","f"," ","S","t","e","a","k">>,
      calories |-> 600, protein |-> 50, carbs |-> 0, fat |-> 40] >>

MaxMeals == 3

\* The lists of at most MaxMeals different meals of the menu.
FilterMealLists ==
  { [i \in 1..Len(places) |-> FilterMenu[places[i]]] :
      places \in { p \in UNION { [1..n -> 1..Len(FilterMenu)] : n \in 0..MaxMeals } :
                     \A i \in DOMAIN p : \A j \in DOMAIN p : i # j => p[i] # p[j] } }

FilterRestrictionLists ==
  { <<>>, <<"Vegan">>, <<"vegetarian">>, <<"gluten-free">>, <<"Vegetarian", "Gluten-Free">>,
    <<"nut allergy">>, <<"keto", "halal">>, <<"vegan", "nut allergy">> }

CalcCall(method, args) == [method |-> method, args |-> args, done |-> FALSE, outcome |-> <<>>]

FilterCalls ==
  { CalcCall("_filter_by_restrictions", [meals |-> meals, restrictions |-> restrictions]) :
      meals \in FilterMealLists, restrictions \in FilterRestrictionLists }

CallFilter ==
  /\ lastCall.method = "_filter_by_restrictions" /\ ~lastCall.done
  /\ lastCall' = [lastCall EXCEPT
       !.done = TRUE,
       !.outcome = _filter_by_restrictions(lastCall.args.meals, lastCall.args.restrictions)]
  /\ UNCHANGED << envVars, planVars, streakVars, profileVars, trackerVars >>

\* The goals of GOAL_ADJUSTMENTS.
CalcGoals == { "weight_loss", "muscle_gain", "maintenance", "keto", "intermittent_fasting" }

DistributionCalls ==
  { CalcCall("get_meal_distribution", [meal_frequency |-> f, goal_type |-> g]) :
      f \in MinMealFrequency..MaxMealFrequency, g \in CalcGoals }

CallDistribution ==
  /\ lastCall.method = "get_meal_distribution" /\ ~lastCall.done
  /\ lastCall' = [lastCall EXCEPT
       !.done = TRUE,
       !.outcome = get_meal_distribution(lastCall.args.meal_frequency,
                                         lastCall.args.goal_type)]
  /\ UNCHANGED << envVars, planVars, streakVars, profileVars, trackerVars >>

\* The plans of the rule-based provider for each frequency and each goal.
RulePlanCalls ==
  { CalcCall("generate_meal_plan",
             [user |-> PlannerUser(f, g, NoneV, <<>>, <<>>), recent_meals |-> <<>>, r |-> r]) :
      f \in MinMealFrequency..MaxMealFrequency,
      g \in { NoneV } \cup { Some(goal) : goal \in CalcGoals },
      r \in RngStates }

CallRulePlan ==
  /\ lastCall.method = "generate_meal_plan" /\ ~lastCall.done
  /\ lastCall' = [lastCall EXCEPT
       !.done = TRUE,
       !.outcome = generate_meal_plan("rule_based", lastCall.args.user,
                                      lastCall.args.recent_meals, ErrorReply, lastCall.args.r)]
  /\ UNCHANGED << envVars, planVars, streakVars, profileVars, trackerVars >>

\* The restrictions of the filter, in every combination, and cuisine
\* preferences: none, each cuisine of the templates, one of no template, two.
CatalogRestrictionLists ==
  { <<>>, <<"vegetarian">>, <<"vegan">>, <<"gluten-free">>, <<"vegetarian", "vegan">>,
    <<"vegetarian", "gluten-free">>, <<"vegan", "gluten-free">>,
    <<"vegetarian", "vegan", "gluten-free">> }
CatalogCuisineLists ==
  { <<>>, <<"american">>, <<"mediterranean">>, <<"indian">>, <<"asian">>, <<"italian">>,
    <<"mexican">>, <<"french">>, <<"mexican", "asian">> }

\* The plans of the rule-based provider for a user of four meals a day, with
\* restrictions and cuisine preferences.
CatalogPlanCalls ==
  { CalcCall("generate_meal_plan",
             [user |-> PlannerUser(4, NoneV, NoneV, rs, cs), recent_meals |-> <<>>, r |-> r]) :
      rs \in CatalogRestrictionLists, cs \in CatalogCuisineLists, r \in RngStates }

SuggestionCalls ==
  { CalcCall("get_meal_suggestion",
             [user |-> PlannerUser(3, NoneV, NoneV, rs, cs), meal_type |-> meal_type,
              remaining_calories |-> remaining_calories]) :
      rs \in CatalogRestrictionLists, cs \in CatalogCuisineLists,
      meal_type \in SuggestMealTypes, remaining_calories \in RemainingCalories }

CallRuleSuggestion ==
  /\ lastCall.method = "get_meal_suggestion" /\ ~lastCall.done
  /\ lastCall' = [lastCall EXCEPT
       !.done = TRUE,
       !.outcome = get_meal_suggestion("rule_based", lastCall.args.user,
                                       lastCall.args.meal_type,
                                       lastCall.args.remaining_calories, ErrorReply)]
  /\ UNCHANGED << envVars, planVars, streakVars, profileVars, trackerVars >>

\* Weights and heights in hundredths, ages in years.
CalcWeights == { 7000, 7025, 6550 }
CalcHeights == { 17500, 17000, 16050 }
CalcAges == { 30, 45 }
CalcGenders == { "male", "female", "other" }
CalcActivities == { "sedentary", "light", "moderate", "active", "very_active" }

BmrCalls ==
  { CalcCall("calculate_bmr", [weight_kg |-> w, height_cm |-> h, age |-> a, gender |-> g]) :
      w \in CalcWeights, h \in CalcHeights, a \in CalcAges, g \in CalcGenders }

CallBmr ==
  /\ lastCall.method = "calculate_bmr" /\ ~lastCall.done
  /\ lastCall' = [lastCall EXCEPT
       !.done = TRUE,
       !.outcome = calculate_bmr(lastCall.args.weight_kg, lastCall.args.height_cm,
                                 lastCall.args.age, lastCall.args.gender)]
  /\ UNCHANGED << envVars, planVars, streakVars, profileVars, trackerVars >>

TargetsCalls ==
  { CalcCall("calculate_targets",
             [weight_kg |-> w, height_cm |-> h, age |-> 30, gender |-> g,
              activity_level |-> act, goal_type |-> goal]) :
      w \in CalcWeights, h \in CalcHeights, g \in CalcGenders, act \in CalcActivities,
      goal \in CalcGoals }

CallTargets ==
  /\ lastCall.method = "calculate_targets" /\ ~lastCall.done
  /\ lastCall' = [lastCall EXCEPT
       !.done = TRUE,
       !.outcome = calculate_targets(Float(lastCall.args.weight_kg),
                                     Float(lastCall.args.height_cm), lastCall.args.age,
                                     lastCall.args.gender, lastCall.args.activity_level,
                                     lastCall.args.goal_type)]
  /\ UNCHANGED << envVars, planVars, streakVars, profileVars, trackerVars >>

-----------------------------------------------------------------------------
(* Specifications.  Each one runs one part of the program; the state of the *)
(* other parts stays as the Idle predicates put it.                         *)

IdlePlanner == lastCall = PlannerCall("none", "rule_based", DefaultUser, <<>>, <<>>,
                                      "snack", 300, ErrorReply, 0)
IdlePlans ==
  /\ plans = [user_id \in PlanUsers |-> NoneV]
  /\ recentPlans = [user_id \in PlanUsers |-> <<>>]
  /\ outbox = NoStep /\ chat = NoChat /\ job = NoJob /\ jobLog = <<>>
IdleStreaks ==
  /\ streaks = NoStreaks /\ streakWrites = NoStreakWrites
  /\ streakCalls = [thread \in Threads |-> NoStreakCall]
IdleProfile ==
  /\ profile = NoneV /\ convState = "END" /\ userData = EmptyDict
  /\ weightLogs = <<>> /\ lastReply = NoReply
IdleTracker == foodLogs = <<>> /\ waterLogs = <<>> /\ trackCall = NoTrackCall
IdleEnv == aiProvider = "rule_based" /\ today = FirstDay

InitPlanner ==
  /\ lastCall \in PlannerCalls
  /\ IdleEnv /\ IdlePlans /\ IdleStreaks /\ IdleProfile /\ IdleTracker

NextPlanner == CallGenerate \/ CallParse \/ CallSuggest

SpecPlanner == InitPlanner /\ [][NextPlanner]_vars

InitTracker ==
  /\ foodLogs \in StoredFoodLogs /\ waterLogs = <<>> /\ trackCall = NoTrackCall
  /\ IdleEnv /\ IdlePlanner /\ IdlePlans /\ IdleStreaks /\ IdleProfile

NextTracker ==
  \/ \E item \in FoodMenu : create_food_log(1, item)
  \/ NextDay
  \/ CallDailyProgress
  \/ CallWeeklyReport

SpecTracker == InitTracker /\ [][NextTracker]_vars

\* The rows the store holds at the start: none, or the row of a streak of 2
\* days that ended on the day before the first.
EarlierStreaks ==
  { NoneV, Some([current_streak |-> 2, longest_streak |-> 2,
                 last_activity_date |-> Some(FirstDay - 1)]) }

InitStreak ==
  /\ streaks \in [StreakKeys -> EarlierStreaks]
  /\ streakWrites = NoStreakWrites
  /\ streakCalls = [thread \in Threads |-> NoStreakCall]
  /\ IdleEnv /\ IdlePlanner /\ IdlePlans /\ IdleProfile /\ IdleTracker

NextStreak ==
  \/ \E thread \in Threads, user \in StreakUsers :
       \E type \in TypesOf(thread) : StreakRead(thread, << user, type >>)
  \/ \E thread \in Threads : StreakWrite(thread)
  \/ NextDay

SpecStreak == InitStreak /\ [][NextStreak]_vars

InitProfile ==
  /\ IdleProfile
  /\ IdleEnv /\ IdlePlanner /\ IdlePlans /\ IdleStreaks /\ IdleTracker

NextProfile ==
  \/ start_command
  \/ get_name("Ann")
  \/ \E text \in AgeTexts : get_age(text)
  \/ \E gender \in Genders : get_gender(gender)
  \/ \E text \in HeightTexts : get_height(text)
  \/ \E text \in WeightTexts : get_weight(text)
  \/ \E activity \in ActivityLevels : get_activity(activity)
  \/ \E goal \in GoalTypes : get_goal(goal)
  \/ \E parts \in RestrictionTexts : get_restrictions(parts)
  \/ \E parts \in CuisineTexts : get_cuisine(parts)
  \/ cancel
  \/ \E text \in WeightTexts : weight_command(text)
  \/ \E weight_kg \in SyncWeights : sync_weight(weight_kg)
  \/ goals_recalc

SpecProfile == InitProfile /\ [][NextProfile]_vars

\* The plan a user was given the day before, by /plan with the rule-based
\* provider.
YesterdaysPlan(user_id) ==
  LET plan_data == generate_meal_plan("rule_based", get_user_by_id(user_id), <<>>,
                                      ErrorReply, 0).value
  IN  MealPlanCreate(plan_data, PlanCommandTotals(plan_data))

PlanProviders == { "ollama", "rule_based" }

\* The store holds no plan of today; of the day before it holds a plan of
\* every user or none.
InitPlanStore ==
  /\ plans = [user_id \in PlanUsers |-> NoneV]
  /\ \/ recentPlans = [user_id \in PlanUsers |-> <<>>]
     \/ recentPlans = [user_id \in PlanUsers |-> << YesterdaysPlan(user_id) >>]
  /\ outbox = NoStep /\ chat = NoChat /\ job = NoJob /\ jobLog = <<>>
  /\ aiProvider \in PlanProviders /\ today = FirstDay

InitPlan ==
  /\ InitPlanStore
  /\ IdlePlanner /\ IdleStreaks /\ IdleProfile /\ IdleTracker

PlanCommandSteps ==
  \/ \E user_id \in PlanUsers, fail \in Failures : plan_command(user_id, fail)
  \/ \E fail \in Failures, input \in GenerationInputs :
       plan_command_recent(fail, input[1], input[2])
  \/ \E fail \in Failures, input \in GenerationInputs :
       plan_command_generated(fail, input[1], input[2])

\* The answers of the AI service that are no JSON object.
NoObjectInputs == { input \in GenerationInputs : input[1] = JsonReply(JsonList) }

\* The morning job at a user: the turns that end at the store or at the
\* answer, then the others.
MorningSteps ==
  \/ \E input \in GenerationInputs : morning_turn("store", input[1], input[2])
  \/ \E fail \in Failures, input \in NoObjectInputs :
       morning_generated(fail, input[1], input[2])
  \/ \E fail \in Failures \ { "store" }, input \in GenerationInputs :
       morning_turn(fail, input[1], input[2])
  \/ \E fail \in Failures, input \in GenerationInputs \ NoObjectInputs :
       morning_generated(fail, input[1], input[2])

NextPlan ==
  \/ PlanCommandSteps
  \/ \E fail \in Failures : StartJob("morning_plans", fail)
  \/ MorningSteps
  \/ FinishJob

SpecPlan == InitPlan /\ [][NextPlan]_vars

\* The failures, those that end a turn at once first.
FailureOrder == << "store", "send", "none" >>

JobSteps ==
  /\ JobRunning
  /\ \/ FinishJob
     \/ MorningSteps
     \/ \E i \in DOMAIN FailureOrder : evening_turn(FailureOrder[i])
     \/ \E i \in DOMAIN FailureOrder : weekly_turn(FailureOrder[i])
     \/ \E i \in DOMAIN FailureOrder : reminder_turn(FailureOrder[i])
     \/ \E i \in DOMAIN FailureOrder : water_turn(FailureOrder[i])

NextJobs ==
  \/ \E kind \in JobKinds, fail \in Failures : StartJob(kind, fail)
  \/ JobSteps

\* A job that has started goes on: the event loop runs it to its end.
SpecJobs == InitPlan /\ [][NextJobs]_vars /\ WF_vars(JobSteps)

\* The recommendations: each call is drawn with its inputs.
InitRecommend ==
  /\ trackCall \in RecommendationCalls /\ foodLogs = <<>> /\ waterLogs = <<>>
  /\ IdleEnv /\ IdlePlanner /\ IdlePlans /\ IdleStreaks /\ IdleProfile

NextRecommend == CallRecommendations

SpecRecommend == InitRecommend /\ [][NextRecommend]_vars

\* The weekly report over a store with weight logs.
InitReport ==
  /\ weightLogs \in StoredWeightLogs
  /\ profile = NoneV /\ convState = "END" /\ userData = EmptyDict /\ lastReply = NoReply
  /\ IdleTracker /\ IdleEnv /\ IdlePlanner /\ IdlePlans /\ IdleStreaks

NextReport ==
  \/ \E weight_kg \in LoggedWeights : create_weight_log(1, weight_kg)
  \/ NextDay
  \/ CallWeeklyReport

SpecReport == InitReport /\ [][NextReport]_vars

\* The functions of the planner and of the calculator.
InitCalc ==
  /\ lastCall \in FilterCalls \cup DistributionCalls \cup RulePlanCalls
                  \cup BmrCalls \cup TargetsCalls \cup CatalogPlanCalls \cup SuggestionCalls
  /\ IdleEnv /\ IdlePlans /\ IdleStreaks /\ IdleProfile /\ IdleTracker

NextCalc ==
  \/ CallFilter
  \/ CallDistribution
  \/ CallRulePlan
  \/ CallRuleSuggestion
  \/ CallBmr
  \/ CallTargets

SpecCalc == InitCalc /\ [][NextCalc]_vars

\* The bot and the sync API on one store, for a user who has a profile or
\* has none.
InitSync ==
  /\ profile \in { NoneV, Some(NewUser(1)) }
  /\ convState = "END" /\ userData = EmptyDict /\ weightLogs = <<>> /\ lastReply = NoReply
  /\ IdleTracker /\ IdleEnv /\ IdlePlanner /\ IdlePlans /\ IdleStreaks

SyncFoods == { d \in FoodDescriptions : Len(d) <= 10 }

NextSync ==
  \/ \E text \in WaterTexts : water_command(text)
  \/ \E amount_ml \in SyncAmounts : sync_water(amount_ml)
  \/ \E food_description \in SyncFoods : log_command(food_description)
  \/ sync_food(Burger)
  \/ weight_command(Numeral(8000))
  \/ sync_weight(Float(8000))
  \/ NextDay

SpecSync == InitSync /\ [][NextSync]_vars

-----------------------------------------------------------------------------
(* Claims about the AIPlanner *)

\* Whether a meal dict carries the name and the nutrition of a template of the list.
FromTemplates(m, templates) ==
  /\ {"name", "calories", "protein", "carbs", "fat"} \subseteq DOMAIN m
  /\ \E i \in 1..Len(templates) :
       /\ templates[i].name = m.name /\ templates[i].calories = m.calories
       /\ templates[i].protein = m.protein /\ templates[i].carbs = m.carbs
       /\ templates[i].fat = m.fat

\* A plan as the rule-based provider builds it for the user: the slots of the
\* user's distribution, each a catalog meal, and a list of catalog snacks.
IsRulePlan(v, user) ==
  LET distribution == get_meal_distribution(user.meal_frequency,
                                            OrElse(user.goal_type, "maintenance")) IN
  /\ IsDict(v)
  /\ {"snacks", "shopping_list"} \subseteq DOMAIN v
  /\ \A k \in 1..Len(MealSlots) :
       /\ MealSlots[k] \in DOMAIN v <=> MealSlots[k] \in DOMAIN distribution
       /\ MealSlots[k] \in DOMAIN v =>
            FromTemplates(v[MealSlots[k]], MEAL_TEMPLATES[MealSlots[k]])
  /\ \A i \in 1..Len(v.snacks) : FromTemplates(v.snacks[i], MEAL_TEMPLATES["snacks"])

\* An estimate of the keyword table, or the default estimate.
IsKeywordEstimate(v) ==
  /\ IsDict(v)
  /\ DOMAIN v = {"calories", "protein", "carbs", "fat"}
  /\ \/ v = DefaultEstimate
     \/ \E i \in 1..Len(FoodEstimates) : v = Nutrition(FoodEstimates[i])

\* A Meal of the catalog list of the meal type (the snacks for an unknown type).
IsCatalogMeal(v, meal_type) ==
  /\ IsDict(v)
  /\ FromTemplates(v, Get(MEAL_TEMPLATES, meal_type, MEAL_TEMPLATES["snacks"]))

IsRuleResult(call) ==
  /\ ~call.outcome.raised
  /\ CASE call.method = "generate_meal_plan" -> IsRulePlan(call.outcome.value, call.user)
       [] call.method = "parse_food_log" -> IsKeywordEstimate(call.outcome.value)
       [] call.method = "get_meal_suggestion" ->
            IsCatalogMeal(call.outcome.value, call.meal_type)
       [] OTHER -> FALSE

\* C1: when the configured AI provider raises, each of generate_meal_plan,
\* parse_food_log and get_meal_suggestion still returns a result (the rule-based
\* plan, the keyword estimate, a catalog meal) and no exception reaches the
\* caller, for every user profile.
Thm_C1_FallbackOnRaise ==
  (lastCall.done /\ IsAIProvider(lastCall.provider) /\ lastCall.reply.kind = "error")
    => IsRuleResult(lastCall)

\* A fasting user's plan came from the fallback after the provider raised.
Wit_C1_FallbackPlan ==
  /\ lastCall.done /\ lastCall.method = "generate_meal_plan"
  /\ lastCall.provider = "groq" /\ lastCall.reply.kind = "error"
  /\ lastCall.user.goal_type = Some("intermittent_fasting")
  /\ ~lastCall.outcome.raised
  /\ "lunch" \in DOMAIN lastCall.outcome.value
  /\ "breakfast" \notin DOMAIN lastCall.outcome.value

\* Whether a parsed reply has the shape the prompt of the method asks for.
HasExpectedShape(method, v) ==
  /\ IsDict(v)
  /\ CASE method = "generate_meal_plan" ->
            {"breakfast", "lunch", "dinner", "snacks"} \subseteq DOMAIN v
       [] method = "parse_food_log" ->
            {"calories", "protein", "carbs", "fat"} \subseteq DOMAIN v
       [] method = "get_meal_suggestion" ->
            {"name", "calories", "protein", "carbs", "fat"} \subseteq DOMAIN v
       [] OTHER -> FALSE

\* C2: every failure of an AI-backed call (an error, a timeout, or a reply that
\* parses but has not the expected shape) makes AIPlanner return the rule-based
\* result; a malformed reply is never handed to the caller.
Claim_C2_MalformedFallsBack ==
  (/\ lastCall.done /\ IsAIProvider(lastCall.provider)
   /\ \/ lastCall.reply.kind = "error"
      \/ ~HasExpectedShape(lastCall.method, lastCall.reply.value))
    => IsRuleResult(lastCall)


-----------------------------------------------------------------------------
(* C13: the filter by dietary restrictions *)

FilterMade == lastCall.method = "_filter_by_restrictions" /\ lastCall.done

\* The meals of the menu by what their names hold.
MeatMeals == { FilterMenu[1], FilterMenu[5] }
AnimalMeals == { FilterMenu[2], FilterMenu[3] }
GlutenMeals == { FilterMenu[2], FilterMenu[3] }

\* The restrictions of the call in lower case.
Asks(tags) ==
  \E k \in 1..Len(lastCall.args.restrictions) :
    lastCall.args.restrictions[k] \in tags

\* Whether the restrictions of the call exclude the meal.
Banned(meal) ==
  \/ Asks({"vegetarian", "Vegetarian", "vegan", "Vegan"}) /\ meal \in MeatMeals
  \/ Asks({"vegan", "Vegan"}) /\ meal \in AnimalMeals
  \/ Asks({"gluten-free", "Gluten-Free"}) /\ meal \in GlutenMeals

\* C13: _filter_by_restrictions returns a non-empty list for a non-empty list
\* of meals; when every meal is excluded it returns the first two meals of the
\* input; otherwise the meals that are not excluded, in their order, so that
\* tags it does not recognise exclude nothing.
Thm_C13_NeverEmpty ==
  FilterMade =>
    LET meals == lastCall.args.meals
        outcome == lastCall.outcome
        kept == SelectSeq(meals, LAMBDA meal : ~Banned(meal))
    IN  /\ meals # <<>> => outcome # <<>>
        /\ (meals # <<>> /\ kept = <<>>) =>
             outcome = [i \in 1..(IF Len(meals) < 2 THEN Len(meals) ELSE 2) |-> meals[i]]
        /\ kept # <<>> => outcome = kept
        /\ ~Asks({"vegetarian", "Vegetarian", "vegan", "Vegan", "gluten-free", "Gluten-Free"})
             => outcome = meals

\* Three meals, each excluded for a vegan: the first two are returned.
Wit_C13_FirstTwoOfExcluded ==
  /\ FilterMade
  /\ Len(lastCall.args.meals) = 3
  /\ \A i \in 1..3 : Banned(lastCall.args.meals[i])
  /\ lastCall.outcome = << lastCall.args.meals[1], lastCall.args.meals[2] >>

-----------------------------------------------------------------------------
(* C14: the meal distribution *)

RECURSIVE SumOfShares(_, _)
SumOfShares(distribution, slots) ==
  IF slots = {} THEN 0
  ELSE LET slot == CHOOSE s \in slots : TRUE
       IN  distribution[slot] + SumOfShares(distribution, slots \ { slot })

\* C14: for meal_frequency 1 to 8 and every goal the shares of
\* get_meal_distribution sum to 1.0 (100 hundredths); the distribution of
\* intermittent_fasting has no breakfast slot, and the rule-based plan of a
\* user with that goal has no breakfast.
Thm_C14_SharesSumToOne ==
  /\ (lastCall.method = "get_meal_distribution" /\ lastCall.done) =>
       /\ SumOfShares(lastCall.outcome, DOMAIN lastCall.outcome) = 100
       /\ \A slot \in DOMAIN lastCall.outcome : lastCall.outcome[slot] > 0
       /\ lastCall.args.goal_type = "intermittent_fasting" =>
            "breakfast" \notin DOMAIN lastCall.outcome
  /\ (/\ lastCall.method = "generate_meal_plan" /\ lastCall.done /\ "args" \in DOMAIN lastCall
      /\ lastCall.args.user.goal_type = Some("intermittent_fasting")) =>
       /\ ~lastCall.outcome.raised
       /\ "breakfast" \notin DOMAIN lastCall.outcome.value
       /\ "lunch" \in DOMAIN lastCall.outcome.value

\* The distribution of intermittent fasting at 8 meals a day: lunch, dinner
\* and snacks.
Wit_C14_FastingAtEight ==
  /\ lastCall.method = "get_meal_distribution" /\ lastCall.done
  /\ lastCall.args = [meal_frequency |-> 8, goal_type |-> "intermittent_fasting"]
  /\ lastCall.outcome = [lunch |-> 45, dinner |-> 45, snacks |-> 10]

-----------------------------------------------------------------------------
(* C15 and C16: the calculator *)

BmrMade == lastCall.method = "calculate_bmr" /\ lastCall.done

\* What calculate_bmr returns for the arguments of the call and this gender.
BmrFor(gender) ==
  calculate_bmr(lastCall.args.weight_kg, lastCall.args.height_cm, lastCall.args.age, gender)

\* C15 as stated: for 'other', calculate_bmr returns the exact average of the
\* values it returns for male and female.
Claim_C15_AverageOfReturned ==
  (BmrMade /\ lastCall.args.gender = "other") =>
    2 * lastCall.outcome = BmrFor("male") + BmrFor("female")

\* val is num / den rounded to the nearest integer, a tie to the even one.
IsRounded(val, num, den) ==
  /\ val \in Int
  /\ 2 * Abs(val * den - num) <= den
  /\ 2 * Abs(val * den - num) = den => val % 2 = 0

\* C15: for 'other', calculate_bmr returns the average of the male and female
\* formulas (10 w + 6.25 h - 5 a - 78), rounded to the nearest integer, a tie
\* to the even one; it is within 1 of the average of the values returned for
\* male and female.
Thm_C15_RoundedAverage ==
  (BmrMade /\ lastCall.args.gender = "other") =>
    /\ IsRounded(lastCall.outcome,
                 1000 * lastCall.args.weight_kg + 625 * lastCall.args.height_cm
                   - 50000 * lastCall.args.age - 780000, 10000)
    /\ Abs(2 * lastCall.outcome - (BmrFor("male") + BmrFor("female"))) <= 2

\* 70 kg, 170 cm, 30 years: 1618 for male, 1452 for female, 1534 for other.
Wit_C15_TieOfOther ==
  /\ BmrMade /\ lastCall.args.gender = "other"
  /\ lastCall.args.weight_kg = 7000 /\ lastCall.args.height_cm = 17000
  /\ lastCall.args.age = 30
  /\ BmrFor("male") = 1618 /\ BmrFor("female") = 1452
  /\ lastCall.outcome = 1534

TargetsMade == lastCall.method = "calculate_targets" /\ lastCall.done

ExampleArgs ==
  [weight_kg |-> 7000, height_cm |-> 17500, age |-> 30, gender |-> "male",
   activity_level |-> "moderate", goal_type |-> "maintenance"]

\* The targets follow the formulas, each step rounded: BMR from the gender's
\* formula, TDEE = BMR * multiplier, calories = TDEE * adjustment, protein and
\* carbs = calories * ratio / 4, fat = calories * ratio / 9.
FollowsFormulas ==
  LET args == lastCall.args
      targets == lastCall.outcome.value
      offset == IF args.gender = "male" THEN 50000
                ELSE IF args.gender = "female" THEN -1610000 ELSE -780000
      multiplier == [sedentary |-> 1200, light |-> 1375, moderate |-> 1550,
                     active |-> 1725, very_active |-> 1900][args.activity_level]
      adjustment == [weight_loss |-> 80, muscle_gain |-> 115, maintenance |-> 100,
                     keto |-> 85, intermittent_fasting |-> 90][args.goal_type]
      ratios == [weight_loss |-> << 35, 35, 30 >>, muscle_gain |-> << 30, 45, 25 >>,
                 maintenance |-> << 25, 50, 25 >>, keto |-> << 25, 5, 70 >>,
                 intermittent_fasting |-> << 30, 40, 30 >>][args.goal_type]
  IN  /\ ~lastCall.outcome.raised
      /\ \E bmr \in 1000..2500 :
           /\ IsRounded(bmr, 1000 * args.weight_kg + 625 * args.height_cm
                               - 50000 * args.age + offset, 10000)
           /\ \E tdee \in 1000..5000 :
                /\ IsRounded(tdee, bmr * multiplier, 1000)
                /\ IsRounded(targets.calories, tdee * adjustment, 100)
      /\ IsRounded(targets.protein, targets.calories * ratios[1], 400)
      /\ IsRounded(targets.carbs, targets.calories * ratios[2], 400)
      /\ IsRounded(targets.fat, targets.calories * ratios[3], 900)

\* C16 as stated: the targets follow the formulas and those of the example
\* (70 kg, 175 cm, 30, male, moderate, maintenance) are 2610, 163, 326, 73.
Claim_C16_ExampleIs2610 ==
  TargetsMade =>
    /\ FollowsFormulas
    /\ lastCall.args = ExampleArgs =>
         lastCall.outcome.value = [calories |-> 2610, protein |-> 163, carbs |-> 326,
                                   fat |-> 73]

\* C16: the targets follow the formulas, each step rounded to the nearest
\* integer, and those of the example (70 kg, 175 cm, 30, male, moderate,
\* maintenance) are 2556 kcal, 160 g protein, 320 g carbs, 71 g fat.
Thm_C16_ExampleIs2556 ==
  TargetsMade =>
    /\ FollowsFormulas
    /\ lastCall.args = ExampleArgs =>
         lastCall.outcome.value = [calories |-> 2556, protein |-> 160, carbs |-> 320,
                                   fat |-> 71]

Wit_C16_ExampleComputed ==
  /\ TargetsMade /\ lastCall.args = ExampleArgs
  /\ lastCall.outcome.value.calories = 2556

-----------------------------------------------------------------------------
(* C19: the rule-based plan and the random generator *)

\* C19: two calls of the rule-based generate_meal_plan with the same profile,
\* target calories, restrictions, cuisine preferences and recent meals return
\* the same plan: the plan of the call is the plan for every state of the
\* random generator.
Claim_C19_SamePlanEveryTime ==
  (lastCall.method = "generate_meal_plan" /\ lastCall.done /\ "args" \in DOMAIN lastCall) =>
    \A r \in RngStates :
      generate_meal_plan("rule_based", lastCall.args.user, lastCall.args.recent_meals,
                         ErrorReply, r) = lastCall.outcome

-----------------------------------------------------------------------------
(* C24: the choice of a slot's meal *)

RulePlanMade ==
  /\ lastCall.method = "generate_meal_plan" /\ lastCall.done
  /\ lastCall.provider = "rule_based" /\ ~lastCall.outcome.raised

\* The templates of the slot that pass the two filters for the user of the call.
Survivors(slot) ==
  _filter_by_cuisine(
    _filter_by_restrictions(MEAL_TEMPLATES[slot], lastCall.user.restrictions),
    lastCall.user.cuisine_preferences)

IsRecent(name) ==
  \E i \in 1..Len(lastCall.recent_meals) : lastCall.recent_meals[i] = name

\* The names the slot may get: those of the survivors that are not recent, or
\* of all survivors when each of them is recent.
Choosable(slot) ==
  LET names == { Survivors(slot)[i].name : i \in 1..Len(Survivors(slot)) }
      fresh == { name \in names : ~IsRecent(name) }
  IN  IF fresh = {} THEN names ELSE fresh

\* C24: the meal of each slot of a rule-based plan is a survivor of the
\* restriction and cuisine filters whose name is not in the recent meals,
\* unless every survivor is in them, when it is any survivor; and each such
\* candidate is the choice for some state of the random generator.
Thm_C24_ChoiceAvoidsRecent ==
  RulePlanMade =>
    \A slot \in { "breakfast", "lunch", "dinner" } \cap DOMAIN lastCall.outcome.value :
      /\ lastCall.outcome.value[slot].name \in Choosable(slot)
      /\ \A name \in Choosable(slot) :
           \E r \in 0..(Len(Survivors(slot)) - 1) :
             generate_meal_plan("rule_based", lastCall.user, lastCall.recent_meals,
                                lastCall.reply, r).value[slot].name = name

\* A plan whose breakfast has a recent survivor that is passed over.
Wit_C24_RecentPassedOver ==
  /\ RulePlanMade /\ "breakfast" \in DOMAIN lastCall.outcome.value
  /\ \E i \in 1..Len(Survivors("breakfast")) : IsRecent(Survivors("breakfast")[i].name)
  /\ ~IsRecent(lastCall.outcome.value.breakfast.name)
  /\ lastCall.r = 0

-----------------------------------------------------------------------------
(* C30: the restrictions over the templates *)

CatalogCallMade ==
  /\ lastCall.method \in { "generate_meal_plan", "get_meal_suggestion" }
  /\ lastCall.done /\ "args" \in DOMAIN lastCall

\* The meals generate_meal_plan and get_meal_suggestion choose from, for a
\* list of the templates and the user of the call.
CatalogOptions(meal_type) ==
  _filter_by_cuisine(
    _filter_by_restrictions(MEAL_TEMPLATES[meal_type], lastCall.args.user.restrictions),
    lastCall.args.user.cuisine_preferences)

\* No banned word of the restrictions of the call is in the name.
Clean(name) == ~Excluded(Lower(name), lastCall.args.user.restrictions)

\* C30: for the templates, any of the restrictions vegetarian, vegan and
\* gluten-free and any cuisine preferences, no breakfast, lunch, dinner or
\* snack that generate_meal_plan or get_meal_suggestion of the rule-based
\* provider chooses has a banned word in its name: the restriction filter
\* always has a survivor, so it never degrades to the first two meals, and
\* the cuisine filter falls back to survivors only.
Thm_C30_NoBannedWord ==
  CatalogCallMade =>
    /\ ~lastCall.outcome.raised
    /\ \A meal_type \in DOMAIN MEAL_TEMPLATES :
         /\ _filter_by_restrictions_NoFallback(MEAL_TEMPLATES[meal_type],
                                               lastCall.args.user.restrictions) # <<>>
         /\ \A i \in 1..Len(CatalogOptions(meal_type)) :
              Clean(CatalogOptions(meal_type)[i].name)
    /\ lastCall.method = "generate_meal_plan" =>
         LET plan == lastCall.outcome.value
         IN  /\ \A k \in 1..Len(MealSlots) :
                  MealSlots[k] \in DOMAIN plan => Clean(plan[MealSlots[k]].name)
             /\ \A i \in 1..Len(plan.snacks) : Clean(plan.snacks[i].name)
    /\ lastCall.method = "get_meal_suggestion" => Clean(lastCall.outcome.value.name)

\* A vegan and gluten-free plan with an Italian preference: the one dinner the
\* restrictions leave is Indian, the cuisine filter falls back to it.
Wit_C30_CuisineFallsBack ==
  /\ CatalogCallMade /\ lastCall.method = "generate_meal_plan"
  /\ lastCall.args.user.restrictions = << "vegan", "gluten-free" >>
  /\ lastCall.args.user.cuisine_preferences = << "italian" >>
  /\ lastCall.outcome.value.dinner.name = DinnerTemplates[3].name
  /\ Len(CatalogOptions("dinner")) = 1
-----------------------------------------------------------------------------
(* Claims about the meal plans and the jobs *)

\* The sum of a field over breakfast, lunch, dinner and the snacks of a
\* stored plan.
SumOfPlan(row, field) == SumOfMeals(row.meals, field) + SumOfSnacks(row.meals, field)

TotalsAreSums(row) ==
  /\ row.total_calories = SumOfPlan(row, "calories")
  /\ row.total_protein = SumOfPlan(row, "protein")
  /\ row.total_carbs = SumOfPlan(row, "carbs")
  /\ row.total_fat = SumOfPlan(row, "fat")

\* C3: every stored meal plan, stored by /plan or by the morning job, has
\* each of its four totals equal to the sum of that field over its breakfast,
\* lunch, dinner and all of its snacks.
Claim_C3_TotalsAreSums ==
  \A user_id \in PlanUsers : plans[user_id] # NoneV => TotalsAreSums(plans[user_id][1])

\* The step was a /plan request or a morning turn that found a plan of today,
\* and neither the store nor the messenger failed in it.
FoundPlanOfToday ==
  /\ outbox'.by \in { "plan_command", "morning_plans" }
  /\ outbox'.existed
  /\ outbox'.error \notin { "store", "send" }

\* C4: when a plan of today exists for the user, a /plan request or a
\* morning turn for that user leaves the plan store as it is and sends that
\* plan.
Claim_C4_ExistingPlanIsSent ==
  [][ FoundPlanOfToday =>
        /\ plans' = plans
        /\ outbox'.sent # NoneV
        /\ outbox'.sent[1].body.total_calories = plans[outbox'.to][1].total_calories ]_vars

\* The users the job has logged, in order.
LoggedUsers == [i \in 1..Len(jobLog) |-> jobLog[i].user]

\* The job has logged each user it has passed, once, in the order of the list.
EachUserOnce == LoggedUsers = SubSeq(job.users, 1, job.idx - 1)


\* C7: in every job a failure at one user does not stop the job: the job
\* goes through every user of its list, each exactly once, and it ends.
Thm_C7_FailureIsIsolated ==
  /\ [](EachUserOnce /\ (JobOver => job.idx \in { 0, Len(job.users) + 1 }))
  /\ (JobRunning ~> JobOver)

\* A job is over that failed at its first user and went on to the others.
Wit_C7_FailedUserThenOthers ==
  /\ JobOver /\ job.users # <<>> /\ Len(jobLog) = Len(job.users)
  /\ Len(jobLog) >= 2
  /\ jobLog[1].error \in { "store", "code" }
  /\ jobLog[2].sent


-----------------------------------------------------------------------------
(* C25: /plan and the morning job for the same user *)

\* A plan that is stored for today stays the stored plan.
StoredPlanStays ==
  \A user_id \in PlanUsers :
    plans[user_id] # NoneV => plans'[user_id] = plans[user_id]

\* C25: when a /plan request and the morning job for the same user and date
\* overlap, neither overwrites a plan the other has stored: the plan that was
\* sent to the user remains the stored plan of the date.
Claim_C25_NoOverwrite == [][StoredPlanStays]_vars

-----------------------------------------------------------------------------
(* C28: the plans of the rule-based provider in the store *)

\* C28: for every meal_frequency from 1 to 8 and every goal the plan of the
\* rule-based provider is stored and read back as a MealPlan without a
\* validation error, as plan_command does before it sends the plan.
Claim_C28_RulePlanReadsBack ==
  (lastCall.method = "generate_meal_plan" /\ lastCall.done /\ "args" \in DOMAIN lastCall) =>
    /\ ~lastCall.outcome.raised
    /\ ~MealPlan(MealPlanCreate(lastCall.outcome.value,
                                PlanCommandTotals(lastCall.outcome.value))).raised
-----------------------------------------------------------------------------
(* Claims about the GoalTracker *)

\* The food logs of a user on a day, as positions in the food_logs table.
LogsOn(user_id, day) ==
  { i \in 1..Len(foodLogs) : foodLogs[i].user_id = user_id /\ foodLogs[i].logged_at = day }

RECURSIVE CaloriesOf(_)
CaloriesOf(S) ==
  IF S = {} THEN 0
  ELSE LET i == CHOOSE i \in S : TRUE IN foodLogs[i].calories + CaloriesOf(S \ {i})

\* |consumed - target| / target <= 0.15 and meals >= 2, for a positive target.
OnTrackByDefinition(consumed, target, meals) ==
  /\ 20 * consumed >= 17 * target /\ 20 * consumed <= 23 * target
  /\ meals >= 2

DailyCallDay == IF trackCall.date = NoneV THEN today ELSE trackCall.date[1]

\* C8: get_daily_progress reports the sum of the calories of the date's food
\* logs of the user and their number, and sets on_track exactly when the
\* calories are within 15% of the target and at least 2 meals were logged; a day
\* with 1900 of 2000 calories in 3 meals is on track.
Thm_C8_OnTrack ==
  /\ OnTrackByDefinition(1900, 2000, 3)
  /\ CalDiffOnTrack(1900, 2000)
  /\ trackCall.method = "get_daily_progress" =>
       LET p == trackCall.progress[1]
           logs == LogsOn(trackCall.user.id, DailyCallDay)
       IN  /\ p.calories_consumed = CaloriesOf(logs)
           /\ p.meals_logged = Cardinality(logs)
           /\ p.calories_target > 0
           /\ p.on_track = OnTrackByDefinition(p.calories_consumed, p.calories_target,
                                               p.meals_logged)

\* A call that finds a day on track at the very edge of the band (850 of 1000).
Wit_C8_OnTrackAtEdge ==
  /\ trackCall.method = "get_daily_progress"
  /\ trackCall.progress[1].on_track
  /\ trackCall.progress[1].calories_consumed = 850
  /\ trackCall.progress[1].calories_target = 1000

ReportEnd == IF trackCall.date = NoneV THEN today ELSE trackCall.date[1]

\* Whether the user's day is on track, from the food logs and the user's target.
DayOnTrack(user, day) ==
  LET logs == LogsOn(user.id, day)
      target == IF user.target_calories \in {NoneV, Some(0)} THEN 2000
                ELSE user.target_calories[1]
  IN  OnTrackByDefinition(CaloriesOf(logs), target, Cardinality(logs))

\* C10: get_weekly_report covers the 7 days end_date-6..end_date: total_days is
\* 7, days_on_track is the number of those days that are on track, and the
\* average of the calories is that of the food logs of exactly those days
\* over 7, whatever was logged.
Thm_C10_WeekWindow ==
  trackCall.method = "get_weekly_report" =>
    LET r == trackCall.report[1]
        window == (ReportEnd - 6)..ReportEnd
        inWindow == UNION { LogsOn(trackCall.user.id, d) : d \in window }
    IN  /\ r.start_date = ReportEnd - 6 /\ r.end_date = ReportEnd
        /\ r.total_days = 7
        /\ r.days_on_track = Cardinality({ d \in window : DayOnTrack(trackCall.user, d) })
        /\ 2 * Abs(7 * r.avg_calories - CaloriesOf(inWindow)) <= 7

\* A report with two days on track, while the user has a food log before the
\* window.
Wit_C10_TwoDaysOnTrack ==
  /\ trackCall.method = "get_weekly_report"
  /\ trackCall.report[1].days_on_track = 2
  /\ \E i \in 1..Len(foodLogs) :
       /\ foodLogs[i].user_id = trackCall.user.id
       /\ foodLogs[i].logged_at < ReportEnd - 6


\* The calories of the user's food logs of the 7 days of the report.
WeekCalories ==
  CaloriesOf(UNION { LogsOn(trackCall.user.id, d) : d \in (ReportEnd - 6)..ReportEnd })

\* C11 as stated: avg_calories is the sum of the 7 daily values divided by 7.
Claim_C11_ExactMean ==
  trackCall.method = "get_weekly_report" =>
    7 * trackCall.report[1].avg_calories = WeekCalories

\* C11: avg_calories is the mean of calories_consumed over the 7 days of the
\* report, zero-log days counted in the denominator, rounded to the nearest
\* integer: it is an integer within one half of the sum divided by 7.
Thm_C11_RoundedMean ==
  trackCall.method = "get_weekly_report" =>
    LET avg == trackCall.report[1].avg_calories
    IN  /\ avg \in Int
        /\ 2 * Abs(7 * avg - WeekCalories) < 7

\* A report over a week with 1000 calories on two days: the mean is 142.86,
\* avg_calories is 143.
Wit_C11_MeanRoundedUp ==
  /\ trackCall.method = "get_weekly_report"
  /\ WeekCalories = 1000
  /\ trackCall.report[1].avg_calories = 143
  /\ \E d \in (ReportEnd - 6)..ReportEnd : LogsOn(trackCall.user.id, d) = {}

-----------------------------------------------------------------------------
(* C12: the recommendations *)

PraiseNames == { "excellent_consistency", "good_progress" }
GoalNames == { "calories_above_target", "eating_too_little", "healthy_weight_loss",
               "eat_more", "protein_for_muscle" }

\* The place of a recommendation in the order of the list.
RankOf(name) ==
  IF name \in PraiseNames THEN 0
  ELSE IF name \in GoalNames THEN 1
  ELSE IF name = "protein_low" THEN 2
  ELSE IF name = "log_consistently" THEN 3
  ELSE 4

RecommendationsMade ==
  trackCall.method = "_generate_recommendations" /\ trackCall.done

\* What the week of the call says of the rules that do not depend on the goal.
PraiseApplies ==
  Cardinality({i \in 1..DaysInReport : trackCall.daily_data[i].on_track}) >= 3
ConsistencyApplies ==
  Cardinality({i \in 1..DaysInReport : trackCall.daily_data[i].meals_logged > 0}) < 5
HydrationApplies ==
  SumSeq(Column(trackCall.daily_data, "water_ml")) < 1500 * DaysInReport

Recommended(name) ==
  \E i \in 1..Len(trackCall.recommendations) : trackCall.recommendations[i] = name

\* C12: the list has at most 5 entries, in the order praise, goal-specific,
\* low protein, logging consistency, hydration; a praise that applies is the
\* first entry, and a logging or hydration entry that applies is missing only
\* from a list of 5 entries, with nothing of a later place kept after it.
Thm_C12_FiveInOrder ==
  RecommendationsMade =>
    LET recs == trackCall.recommendations
    IN  /\ Len(recs) <= 5
        /\ \A i \in 1..Len(recs) : \A j \in 1..Len(recs) :
             i < j => /\ RankOf(recs[i]) <= RankOf(recs[j])
                      /\ recs[i] # recs[j]
        /\ PraiseApplies <=> (Len(recs) > 0 /\ recs[1] \in PraiseNames)
        /\ (\E i \in 1..Len(recs) : recs[i] = "log_consistently") => ConsistencyApplies
        /\ (\E i \in 1..Len(recs) : recs[i] = "water_low") => HydrationApplies
        /\ (ConsistencyApplies /\ ~Recommended("log_consistently")) =>
             (Len(recs) = 5 /\ ~Recommended("water_low"))
        /\ (HydrationApplies /\ ~Recommended("water_low")) => Len(recs) = 5

\* Six rules apply: the praise is first and the hydration entry is the one
\* that is dropped.
Wit_C12_SixthDropped ==
  /\ RecommendationsMade
  /\ PraiseApplies /\ ConsistencyApplies /\ HydrationApplies
  /\ trackCall.recommendations =
       << "good_progress", "eat_more", "protein_for_muscle", "protein_low",
          "log_consistently" >>

-----------------------------------------------------------------------------
(* C20: the weight change of the weekly report *)

\* The places in the weight log table of the user's entries of the history.
HistoryPlaces ==
  { i \in 1..Len(weightLogs) :
      /\ weightLogs[i].user_id = trackCall.user.id
      /\ weightLogs[i].logged_at >= today - 7 }

Newest(places) == CHOOSE i \in places : \A j \in places : j <= i
Oldest(places) == CHOOSE i \in places : \A j \in places : i <= j

\* C20: weight_change is absent when the history has fewer than 2 entries;
\* otherwise it is the newest weight minus the oldest weight of the history,
\* negative for a loss.
Thm_C20_NewestMinusOldest ==
  trackCall.method = "get_weekly_report" =>
    LET weight_change == trackCall.report[1].weight_change
    IN  IF Cardinality(HistoryPlaces) < 2
        THEN weight_change = NoneV
        ELSE LET newest == weightLogs[Newest(HistoryPlaces)].weight_kg.v
                 oldest == weightLogs[Oldest(HistoryPlaces)].weight_kg.v
             IN  /\ weight_change = Some(Float(newest - oldest))
                 /\ newest < oldest => weight_change[1].v < 0

\* A history of three entries, the newest 1.5 kg under the oldest.
Wit_C20_LossIsNegative ==
  /\ trackCall.method = "get_weekly_report"
  /\ Cardinality(HistoryPlaces) = 3
  /\ trackCall.report[1].weight_change = Some(Float(-150))

-----------------------------------------------------------------------------
(* C21: the window of the weight history *)

\* The places in the weight log table of the user's entries of the 7 days of
\* the report.
WindowPlaces ==
  { i \in 1..Len(weightLogs) :
      /\ weightLogs[i].user_id = trackCall.user.id
      /\ weightLogs[i].logged_at >= ReportEnd - 6
      /\ weightLogs[i].logged_at <= ReportEnd }

\* C21: the weight history of get_weekly_report(user, end_date) is the user's
\* weight logs of the days end_date-6 .. end_date: weight_change is absent when
\* fewer than 2 of the user's logs are of those days, and otherwise the newest
\* weight of those days minus the oldest.
Claim_C21_HistoryOfTheWindow ==
  trackCall.method = "get_weekly_report" =>
    LET weight_change == trackCall.report[1].weight_change
    IN  IF Cardinality(WindowPlaces) < 2
        THEN weight_change = NoneV
        ELSE weight_change =
               Some(Float(weightLogs[Newest(WindowPlaces)].weight_kg.v
                            - weightLogs[Oldest(WindowPlaces)].weight_kg.v))

-----------------------------------------------------------------------------
(* C22: the praise line *)

OnTrackDays == Cardinality({i \in 1..DaysInReport : trackCall.daily_data[i].on_track})

\* C22: the list starts with the excellent-consistency line exactly when at
\* least 5 of the 7 days are on track, with the good-progress line exactly
\* when 3 or 4 are, and has no praise line when fewer than 3 are; a praise line
\* is at index 0 only, and the cap of 5 never removes it.
Thm_C22_PraiseLeads ==
  RecommendationsMade =>
    LET recs == trackCall.recommendations
    IN  /\ OnTrackDays >= 5 <=> (Len(recs) > 0 /\ recs[1] = "excellent_consistency")
        /\ OnTrackDays \in 3..4 <=> (Len(recs) > 0 /\ recs[1] = "good_progress")
        /\ \A i \in 2..Len(recs) : recs[i] \notin { "excellent_consistency", "good_progress" }
        /\ OnTrackDays < 3 =>
             \A i \in 1..Len(recs) : recs[i] \notin { "excellent_consistency", "good_progress" }

\* Five days on track and four flags: the excellent-consistency line leads a
\* list of 5.
Wit_C22_ExcellentLeadsFive ==
  /\ RecommendationsMade /\ OnTrackDays = 5
  /\ Len(trackCall.recommendations) = 5
  /\ trackCall.recommendations[1] = "excellent_consistency"

-----------------------------------------------------------------------------
(* C23: the rules of weight_loss *)

WeekCaloriesOfCall == SumSeq(Column(trackCall.daily_data, "calories_consumed"))
TargetOfCall ==
  IF trackCall.user.target_calories \in { NoneV, Some(0) } THEN 2000
  ELSE trackCall.user.target_calories[1]

\* The average calories exceed the target by more than pct percent; are more
\* than pct percent below it.
AverageOver(pct) ==
  100 * WeekCaloriesOfCall > (100 + pct) * TargetOfCall * DaysInReport
AverageUnder(pct) ==
  100 * WeekCaloriesOfCall < (100 - pct) * TargetOfCall * DaysInReport

\* C23: for a user with goal weight_loss the weight-loss praise is produced
\* whenever weight_change <= -0.5, the over-target flag whenever the average
\* calories exceed the target by more than 10%, and the under-target flag
\* whenever they are more than 20% below it.
Claim_C23_WeightLossRules ==
  (RecommendationsMade /\ trackCall.user.goal_type = Some("weight_loss")) =>
    /\ (trackCall.weight_change # NoneV /\ trackCall.weight_change[1].v <= -50)
         => Recommended("healthy_weight_loss")
    /\ AverageOver(10) => Recommended("calories_above_target")
    /\ AverageUnder(20) => Recommended("eating_too_little")

-----------------------------------------------------------------------------
(* C29: the praise and the logging reminder *)

\* The days of the call with a logged meal.
DaysWithMeal ==
  Cardinality({i \in 1..DaysInReport : trackCall.daily_data[i].meals_logged > 0})

\* C29: the recommendations of one weekly report never hold both the
\* excellent-consistency line and the line to log meals more consistently: a
\* day on track has a logged meal, so 5 days on track are 5 days with a meal.
Thm_C29_PraiseExcludesReminder ==
  RecommendationsMade =>
    /\ ~(Recommended("excellent_consistency") /\ Recommended("log_consistently"))
    /\ \A i \in 1..DaysInReport :
         trackCall.daily_data[i].on_track => trackCall.daily_data[i].meals_logged > 0
    /\ OnTrackDays >= ExcellentDays => DaysWithMeal >= MinLoggedDays

\* Exactly 5 days on track and 2 days without a meal: the praise is there, the
\* reminder is not.
Wit_C29_FiveOnTrackTwoEmpty ==
  /\ RecommendationsMade
  /\ OnTrackDays = 5 /\ DaysWithMeal = 5
  /\ Recommended("excellent_consistency") /\ ~Recommended("log_consistently")
-----------------------------------------------------------------------------
(* Claims about the streaks *)

\* C5: the row of a user and a streak type changes at most once on a day, and
\* a call of update_streak that finds the row already of today, whichever thread
\* makes it, returns the row as it found it and leaves it so in the store.
Thm_C5_OncePerDay ==
  /\ \A key \in StreakKeys : streakWrites[key] <= 1
  /\ \A thread \in Threads :
       LET call == streakCalls[thread]
       IN  (/\ call.pc = "done" /\ call.seen # NoneV
            /\ call.seen[1].last_activity_date = Some(today))
             => /\ call.result = call.seen
                /\ streaks[call.key] = call.seen

\* A second call on the day of a first one has returned, with a streak of 2 days.
Wit_C5_SecondCallSameDay ==
  \E thread \in Threads :
    LET call == streakCalls[thread]
    IN  /\ call.pc = "done" /\ call.seen # NoneV
        /\ call.seen[1].last_activity_date = Some(today)
        /\ call.seen[1].current_streak = 2
        /\ streakWrites[call.key] = 1


-----------------------------------------------------------------------------
(* C17: the chat commands and the sync API *)

\* The streaks after update_streak for the key.
StreaksAfter(key) ==
  LET seen == streaks[key]
  IN  IF seen = NoneV
      THEN [streaks EXCEPT ![key] = Some([current_streak |-> 1, longest_streak |-> 1,
                                           last_activity_date |-> Some(today)])]
      ELSE IF seen[1].last_activity_date = Some(today) THEN streaks
      ELSE [streaks EXCEPT ![key] = StreakUpdate(seen[1], today)]

ChatStep(request) ==
  /\ lastReply'.request = request /\ lastReply'.status = "ok"
  /\ today' = today /\ << waterLogs', foodLogs', weightLogs' >> # << waterLogs, foodLogs, weightLogs >>

\* The store after a chat command is the store after the sync request of the
\* same kind and the same values.
ChatAsSync ==
  /\ ChatStep("water_command") =>
       /\ waterLogs' = Append(waterLogs, [user_id |-> 1, logged_at |-> today,
                                          amount_ml |-> lastReply'.value.v \div 100])
       /\ streaks' = StreaksAfter(<< 1, "water" >>)
  /\ ChatStep("log_command") =>
       /\ Len(foodLogs') = Len(foodLogs) + 1
       /\ foodLogs'[Len(foodLogs')].calories = lastReply'.value.v \div 100
       /\ streaks' = StreaksAfter(<< 1, "logging" >>)
  /\ ChatStep("weight_command") =>
       /\ weightLogs' = Append(weightLogs, [user_id |-> 1, weight_kg |-> profile'[1].weight_kg[1],
                                            logged_at |-> today])
       /\ profile'[1].weight_kg = Some(Float(lastReply'.value.v))
       /\ streaks' = streaks

\* C17: for each kind of event (food, water, weight) the chat command performs
\* the store operations of the sync API: the same log append and the same
\* streak update (food: the logging streak; water: the water streak; weight:
\* the weight of the profile).
Claim_C17_SameStoreOperations == [][ChatAsSync]_vars

-----------------------------------------------------------------------------
(* C26, C27: the streak under interleaved and under repeated calls *)

\* A step within a day changes a stored row only when the row is not yet of
\* the day, makes it of the day and adds at most 1 to its current_streak.
OneAdvanceADay ==
  today' = today =>
    \A key \in StreakKeys :
      (streaks[key] # NoneV /\ streaks'[key] # streaks[key]) =>
        /\ streaks'[key] # NoneV
        /\ streaks[key][1].last_activity_date # Some(today)
        /\ streaks'[key][1].last_activity_date = Some(today)
        /\ streaks'[key][1].current_streak <= streaks[key][1].current_streak + 1

StreakRules ==
  \A key \in StreakKeys :
    streaks'[key] # NoneV =>
      LET new == streaks'[key][1]
      IN  /\ new.current_streak >= 1
          /\ new.longest_streak >= new.current_streak
          /\ (streaks[key] # NoneV /\ streaks'[key] # streaks[key]) =>
               LET old == streaks[key][1]
               IN  /\ new.longest_streak >= old.longest_streak
                   /\ new.last_activity_date = Some(today)
                   /\ old.last_activity_date = Some(today - 1)
                        => new.current_streak = old.current_streak + 1
                   /\ (old.last_activity_date # NoneV
                       /\ old.last_activity_date[1] < today - 1)
                        => new.current_streak = 1

\* C27: after any calls of update_streak on any days every row has
\* longest_streak >= current_streak >= 1; a call adds exactly 1 to
\* current_streak when the last activity was the day before, sets it to 1 when
\* it was earlier, and never lowers longest_streak.
Thm_C27_StreakRules == [][StreakRules]_vars

\* A streak of 2 days was broken: the row of today has current_streak 1 and
\* longest_streak 2.
Wit_C27_BrokenStreakKeepsLongest ==
  \E key \in StreakKeys :
    /\ streaks[key] # NoneV
    /\ streaks[key][1].current_streak = 1
    /\ streaks[key][1].longest_streak = 2
    /\ streaks[key][1].last_activity_date = Some(today)
-----------------------------------------------------------------------------
(* Claims about the profile *)

\* Whether the value of a request is outside the range of what it sets.
OutOfRange(reply) ==
  \/ /\ reply.request = "get_age" /\ reply.value.kind = "numeral"
     /\ (reply.value.v < 10 * 100 \/ reply.value.v > 120 * 100)
  \/ /\ reply.request = "get_height" /\ reply.value.kind = "numeral"
     /\ (reply.value.v < 50 * 100 \/ reply.value.v > 300 * 100)
  \/ /\ reply.request \in { "get_weight", "weight_command" } /\ reply.value.kind = "numeral"
     /\ (reply.value.v < 20 * 100 \/ reply.value.v > 500 * 100)
  \/ /\ reply.request = "sync_weight" /\ ~reply.value.nan
     /\ (reply.value.v < 20 * 100 \/ reply.value.v > 500 * 100)

ProfileInRange ==
  profile # NoneV =>
    LET user == profile[1]
    IN  /\ user.age # NoneV => (user.age[1] >= 10 /\ user.age[1] <= 120)
        /\ user.height_cm # NoneV =>
             (/\ ~user.height_cm[1].nan
              /\ user.height_cm[1].v >= 50 * 100 /\ user.height_cm[1].v <= 300 * 100)
        /\ user.weight_kg # NoneV =>
             (/\ ~user.weight_kg[1].nan
              /\ user.weight_kg[1].v >= 20 * 100 /\ user.weight_kg[1].v <= 500 * 100)

RejectsOutOfRange ==
  OutOfRange(lastReply') =>
    /\ lastReply'.status # "ok"
    /\ profile' = profile /\ weightLogs' = weightLogs /\ userData' = userData

\* C6: after any onboarding answers, /weight commands and sync/weight requests
\* the age of the stored profile, when set, is in 10..120, its height in
\* 50..300 and its weight in 20..500; a request with a value outside its range
\* is not accepted and changes neither the profile nor the weight logs.
Thm_C6_ProfileRanges == []ProfileInRange /\ [][RejectsOutOfRange]_vars

\* A profile set up with the smallest weight, and then a sync/weight of 19.99
\* kg answered with an error.
Wit_C6_RejectedAtEdge ==
  /\ profile # NoneV /\ profile[1].age # NoneV
  /\ profile[1].weight_kg = Some(Float(2000))
  /\ lastReply.request = "sync_weight" /\ lastReply.value = Float(1999)
  /\ lastReply.status = "raised"


-----------------------------------------------------------------------------
(* C18: recalculating the targets of an incomplete profile *)

TargetFields == { "target_calories", "target_protein", "target_carbs", "target_fat" }

\* The stored profile lacks its weight, its height or its age.
ProfileLacksData ==
  /\ profile # NoneV
  /\ \/ profile[1].weight_kg = NoneV \/ profile[1].height_cm = NoneV
     \/ profile[1].age = NoneV

RecalcOfIncomplete ==
  (ProfileLacksData /\ lastReply'.request = "goals_recalc") =>
    /\ lastReply'.status = "missing"
    /\ profile' = profile
    /\ \A field \in TargetFields : profile'[1][field] = profile[1][field]

\* C18: a recalculate-targets request for a user whose weight, height or age
\* is missing is answered with the complete-your-profile message and leaves
\* the stored profile, its four targets included, as it was.
Thm_C18_IncompleteUnchanged == [][RecalcOfIncomplete]_vars

\* A profile with a weight and no height, and the request answered with the
\* complete-your-profile message.
Wit_C18_WeightButNoHeight ==
  /\ profile # NoneV
  /\ profile[1].weight_kg # NoneV /\ profile[1].height_cm = NoneV
  /\ lastReply.request = "goals_recalc" /\ lastReply.status = "missing"
====
